---- MODULE Spec2Model ----
(***************************************************************************)
(* A model of py2scala's translator (p2s.py): the structural matcher       *)
(* tmatch, the line-synchronised comment reinsertion of LineSyntax, the    *)
(* documentation-derived type resolver of TypeDecls and the per-node       *)
(* translation rules of PyToScala.                                         *)
(*                                                                         *)
(* Python values are tagged records: [t |-> "None"], [t |-> "int", v],     *)
(* [t |-> "float", v] (v counts halves, so 1.5 is v = 3), [t |-> "str", v],*)
(* [t |-> "bool", v], [t |-> "list", v] and syntax-tree nodes, whose tag   *)
(* is the node class and whose other fields are the class's _fields (plus  *)
(* the lineno attribute on statements and expressions).                    *)
(*                                                                         *)
(* The output sink is the sequence of text pieces written to it; its text  *)
(* is their concatenation, so wr('var %s' % f) appends "var " and f.       *)
(***************************************************************************)
EXTENDS Integers, Sequences, FiniteSets, TLC

VARIABLES
    candidate, pattern, tm_ret,   \* tmatch: its two operands and its outcome
    txt, pt_ret,                  \* parse_types: its operand and its result
    tree, lines, api, sink,       \* convert: the module, _lines, api, the sink's kind
    pc, body, ix,                 \* visit_Module: its phase, its statements, the next one
    out, mark,                    \* the pieces written; their number before the last step
    line_ix, col, def_stack,      \* _line_ix, _col, _def_stack
    err, msg,                     \* the exception that ended the conversion, its message
    visits                        \* the nodes NodeVisitor.visit was called on, in order

vars == <<candidate, pattern, tm_ret, txt, pt_ret, tree, lines, api, sink,
          pc, body, ix, out, mark, line_ix, col, def_stack, err, msg, visits>>

----------------------------------------------------------------------------
(* Bounds *)

MaxListLen == 2
MaxRows == 3
MaxDocLines == 2
MaxNames == 2
MaxVals == 3
MaxCtorStmts == 2
MaxLoopStmts == 2
MaxIter == 2
MaxArgs == 2
MaxParams == 2
MaxStmts == 2
MaxOps == 2
MaxItems == 2
MaxChars == 3
MaxTargets == 2

----------------------------------------------------------------------------
(* Python values *)

NoneV == [t |-> "None"]
I(n) == [t |-> "int", v |-> n]
F(h) == [t |-> "float", v |-> h]
S(s) == [t |-> "str", v |-> s]
B(b) == [t |-> "bool", v |-> b]
L(xs) == [t |-> "list", v |-> xs]

Load == [t |-> "Load"]
Store == [t |-> "Store"]
Del == [t |-> "Del"]
Param == [t |-> "Param"]

IsNone(x) == x.t = "None"

Min(a, b) == IF a < b THEN a ELSE b

\* The _fields of each node class (Python 2 ast).
Fields(t) ==
    CASE t = "Module" -> <<"body">>
      [] t = "FunctionDef" -> <<"name", "args", "body", "decorator_list">>
      [] t = "ClassDef" -> <<"name", "bases", "body", "decorator_list">>
      [] t = "Return" -> <<"value">>
      [] t = "Delete" -> <<"targets">>
      [] t = "Assign" -> <<"targets", "value">>
      [] t = "For" -> <<"target", "iter", "body", "orelse">>
      [] t = "Expr" -> <<"value">>
      [] t = "Lambda" -> <<"args", "body">>
      [] t = "Call" -> <<"func", "args", "keywords", "starargs", "kwargs">>
      [] t = "Num" -> <<"n">>
      [] t = "Str" -> <<"s">>
      [] t = "Attribute" -> <<"value", "attr", "ctx">>
      [] t = "Subscript" -> <<"value", "slice", "ctx">>
      [] t = "Name" -> <<"id", "ctx">>
      [] t = "Tuple" -> <<"elts", "ctx">>
      [] t = "Index" -> <<"value">>
      [] t = "arguments" -> <<"args", "vararg", "kwarg", "defaults">>
      [] t = "keyword" -> <<"arg", "value">>
      [] OTHER -> <<>>

\* candidate == pattern for a pattern that is an int, a str or a bool:
\* numbers compare by value across int, bool and float, texts by content,
\* anything else is unequal.
IsNumber(x) == x.t \in {"int", "bool", "float"}
Halves(x) ==
    CASE x.t = "int" -> 2 * x.v
      [] x.t = "bool" -> IF x.v THEN 2 ELSE 0
      [] x.t = "float" -> x.v

PyEq(c, p) ==
    IF IsNumber(c) /\ IsNumber(p) THEN Halves(c) = Halves(p)
    ELSE IF c.t = "str" /\ p.t = "str"
         THEN /\ DOMAIN c = DOMAIN p
              /\ IF "v" \in DOMAIN c THEN c.v = p.v ELSE c.cs = p.cs
         ELSE FALSE

\* The outcomes of a call of tmatch: it returns True or False, or the lookup
\* of _fields (or of a field the pattern leaves out) raises AttributeError.
Outcomes == {"True", "False", "AttributeError"}

AllOf(rs) ==
    IF \E i \in DOMAIN rs : rs[i] = "AttributeError" THEN "AttributeError"
    ELSE IF \A i \in DOMAIN rs : rs[i] = "True" THEN "True"
    ELSE "False"

RECURSIVE tmatch(_, _)

\* zip(candidate, pattern) pairs the elements up to the shorter length.
tmatch_list(c, p) ==
    IF c.t # "list" THEN "False"
    ELSE AllOf([i \in 1..Min(Len(c.v), Len(p.v)) |-> tmatch(c.v[i], p.v[i])])

\* The last three tests of tmatch: isinstance, _fields, then field by field.
tmatch_tree(c, p) ==
    IF c.t # p.t THEN "False"
    ELSE IF p.t = "float" THEN "AttributeError"
    ELSE LET fs == Fields(p.t)
         IN AllOf([i \in 1..Len(fs) |->
                     IF fs[i] \notin DOMAIN p \/ fs[i] \notin DOMAIN c
                     THEN "AttributeError"
                     ELSE tmatch(c[fs[i]], p[fs[i]])])

tmatch(c, p) ==
    IF p.t = "None" THEN "True"
    ELSE IF p.t \in {"int", "str", "bool"}
         THEN (IF PyEq(c, p) THEN "True" ELSE "False")
    ELSE IF p.t = "list" THEN tmatch_list(c, p)
    ELSE tmatch_tree(c, p)

matches(c, p) == tmatch(c, p) = "True"

----------------------------------------------------------------------------
(* The matcher on its own: operands drawn from a bounded set of values *)

Atoms == {NoneV, I(0), I(1), F(2), F(3), S("a"), S("b"), B(TRUE), B(FALSE)}

NameNodes ==
    {[t |-> "Name", id |-> i, ctx |-> c] : i \in {NoneV, S("a"), S("b")},
                                           c \in {NoneV, Load, Store}}
      \cup {[t |-> "Name", id |-> S("a")]}

ListElems == {NoneV, I(1), S("a"), [t |-> "Name", id |-> S("a"), ctx |-> Load]}

SeqsUpTo(E, n) == UNION {[1..k -> E] : k \in 0..n}

Lists == {L(xs) : xs \in SeqsUpTo(ListElems, MaxListLen)}

Trees ==
    NameNodes \cup {Load, Store}
      \cup {[t |-> "Index", value |-> x] : x \in {NoneV, I(1), L(<<>>), L(<<I(1)>>)}}

MatchValues == Atoms \cup Lists \cup Trees

Quiet ==
    /\ tree = <<>> /\ lines = <<>> /\ api = FALSE /\ sink = "file"
    /\ pc = "idle" /\ body = <<>> /\ ix = 1 /\ out = <<>> /\ mark = 0
    /\ line_ix = 1 /\ col = 0 /\ def_stack = <<>> /\ err = "none"
    /\ msg = <<>> /\ visits = <<>>

NoMatch == candidate = NoneV /\ pattern = NoneV /\ tm_ret = "unset"
NoParse == txt = <<>> /\ pt_ret = NoneV

InitMatch ==
    /\ candidate \in MatchValues
    /\ pattern \in MatchValues
    /\ tm_ret = "unset"
    /\ NoParse
    /\ Quiet

CallTmatch ==
    /\ tm_ret = "unset"
    /\ tm_ret' = tmatch(candidate, pattern)
    /\ UNCHANGED <<candidate, pattern, txt, pt_ret, tree, lines, api, sink,
                   pc, body, ix, out, mark, line_ix, col, def_stack, err, msg,
                   visits>>

NextMatch == CallTmatch

SpecMatch == InitMatch /\ [][NextMatch]_vars

----------------------------------------------------------------------------
(* Claims about the matcher *)

BothLists == candidate.t = "list" /\ pattern.t = "list"

\* C2: a sequence template matches only a candidate sequence of the same
\* length: whenever the candidate list and the template list differ in
\* length, tmatch returns False.
C2_LengthsDifferNeverMatch ==
    (tm_ret # "unset" /\ BothLists /\ Len(candidate.v) # Len(pattern.v))
        => tm_ret = "False"

\* C3: tmatch is total: on every candidate and every template built from
\* None, numbers (integer and floating), texts, booleans, sequences and
\* trees it returns a boolean and raises nothing.
C3_Total == tm_ret # "unset" => tm_ret \in {"True", "False"}

----------------------------------------------------------------------------
(* The translator's mutable state, threaded through the visit of a node:    *)
(* the sink's pieces, _line_ix (counted from 1), _col, _def_stack and the   *)
(* exception in flight, after which nothing more is done.                   *)

modname == "m"
partial_app == "pf_"

State ==
    [out |-> out, line_ix |-> line_ix, col |-> col, def_stack |-> def_stack,
     err |-> err, msg |-> msg, visits |-> visits]

Raise(s, e) == IF s.err # "none" THEN s ELSE [s EXCEPT !.err = e]

limitation(s, ok) == IF ok THEN s ELSE Raise(s, "NotImplementedError")

wr(s, piece) == IF s.err # "none" THEN s ELSE [s EXCEPT !.out = Append(@, piece)]

wr_all(s, pieces) == IF s.err # "none" THEN s ELSE [s EXCEPT !.out = @ \o pieces]

\* ' ' * n
Blanks(n) == [i \in 1..n |-> " "]

newline(s) == wr_all(wr(s, "\n"), Blanks(s.col))

block_enter(s) ==
    IF s.err # "none" THEN s
    ELSE LET s1 == [s EXCEPT !.col = @ + 2]
         IN wr_all(wr(s1, "{\n"), Blanks(s1.col))

\* What follows the yield of _block; an exception raised in the block's
\* body leaves the generator at the yield, so none of this runs.
block_exit(s) ==
    IF s.err # "none" THEN s
    ELSE LET s1 == [s EXCEPT !.col = @ - 2]
         IN wr_all(wr(s1, "}\n"), Blanks(s1.col))

push(s, tag) == IF s.err # "none" THEN s ELSE [s EXCEPT !.def_stack = Append(@, tag)]

pop(s) ==
    IF s.err # "none" THEN s
    ELSE IF s.def_stack = <<>> THEN Raise(s, "IndexError")
    ELSE [s EXCEPT !.def_stack = SubSeq(@, 1, Len(@) - 1)]

\* self._def_stack[-1:] == [tag]
top_is(s, tag) == s.def_stack # <<>> /\ s.def_stack[Len(s.def_stack)] = tag

\* isinstance(node, (ast.expr, ast.stmt))
IsStmtOrExpr(node) ==
    node.t \in {"FunctionDef", "ClassDef", "Return", "Delete", "Assign", "For", "Expr",
                "Pass", "Break", "Raise",
                "Lambda", "Call", "Num", "Str", "Attribute", "Subscript", "Name",
                "Tuple", "Compare"}

\* tokens_per_line: the tokens grouped by the row they start on.
RECURSIVE group_tokens(_, _, _, _)
group_tokens(toks, row, line, acc) ==
    IF toks = <<>>
    THEN (IF line # <<>> THEN Append(acc, [row |-> row, toks |-> line]) ELSE acc)
    ELSE LET tok == Head(toks)
         IN IF tok.row > row
            THEN group_tokens(Tail(toks), tok.row, <<tok>>,
                              Append(acc, [row |-> row, toks |-> line]))
            ELSE group_tokens(Tail(toks), row, Append(line, tok), acc)

tokens_per_line(toks) == group_tokens(toks, 1, <<>>, <<>>)

\* The inner loop of _sync: every COMMENT token of a line is written as
\* '//' + tok[1][1:], then newline(). A token's text is its pieces, the
\* first of a comment being "#".
RECURSIVE write_comments(_, _)
write_comments(s, toks) ==
    IF toks = <<>> THEN s
    ELSE LET tok == Head(toks)
         IN write_comments(
                IF tok.kind = "COMMENT"
                THEN newline(wr_all(wr(s, "//"), Tail(tok.text)))
                ELSE s,
                Tail(toks))

\* The while loop of _sync; reading _lines past its end is an IndexError.
RECURSIVE sync_lines(_, _)
\* A mutant of sync_lines: the loop stops at the line of the node's row.
sync_lines_before_row(s, lineno) ==
    IF s.err # "none" THEN s
    ELSE IF s.line_ix > Len(lines) THEN Raise(s, "IndexError")
    ELSE IF lineno > lines[s.line_ix].row
    THEN sync_lines([write_comments(s, lines[s.line_ix].toks)
                        EXCEPT !.line_ix = @ + 1], lineno)
    ELSE s

sync_lines(s, lineno) ==
    IF s.err # "none" THEN s
    ELSE IF s.line_ix > Len(lines) THEN Raise(s, "IndexError")
    ELSE IF lineno >= lines[s.line_ix].row
    THEN sync_lines([write_comments(s, lines[s.line_ix].toks)
                        EXCEPT !.line_ix = @ + 1], lineno)
    ELSE s

_sync(s, node) == IF IsStmtOrExpr(node) THEN sync_lines(s, node.lineno) ELSE s

fix_kw(n) == IF n = "match" THEN "match_" ELSE n

\* str(node.n) for the numbers of the model.
Digits == <<"0", "1", "2", "3", "4", "5", "6", "7", "8", "9">>
str_num(n) ==
    IF n.t = "int" THEN Digits[n.v + 1]
    ELSE CASE n.v = 1 -> "0.5" [] n.v = 2 -> "1.0" [] n.v = 3 -> "1.5"
           [] n.v = 4 -> "2.0" [] OTHER -> "2.5"

\* s.encode("string_escape").replace('"', '\\"') for the texts of the model.
string_escape(text) ==
    CASE text = "\"" -> "\\\""
      [] text = "\n" -> "\\n"
      [] OTHER -> text

\* The characters of a text: a docstring is held by its characters (cs),
\* any other text is one piece.
chars_of(sv) == IF "cs" \in DOMAIN sv THEN sv.cs ELSE <<sv.v>>

\* doc.split('\n')
RECURSIVE split_lines(_, _)
split_lines(cs, cur) ==
    IF cs = <<>> THEN <<cur>>
    ELSE IF Head(cs) = "\n" THEN <<cur>> \o split_lines(Tail(cs), <<>>)
    ELSE split_lines(Tail(cs), Append(cur, Head(cs)))

\* '\n'.join(ls)
RECURSIVE join_lines(_)
join_lines(ls) ==
    IF ls = <<>> THEN <<>>
    ELSE IF Len(ls) = 1 THEN Head(ls)
    ELSE Head(ls) \o <<"\n">> \o join_lines(Tail(ls))

\* '*/' in doc
has_close_comment(cs) == \E i \in 1..(Len(cs) - 1) : cs[i] = "*" /\ cs[i + 1] = "/"

\* ast.get_docstring(node): the text of a leading string statement, or None.
get_docstring(node) ==
    LET stmts == node.body.v
    IN IF stmts # <<>> /\ stmts[1].t = "Expr" /\ stmts[1].value.t = "Str"
       THEN stmts[1].value.s
       ELSE NoneV

RECURSIVE write_doc_lines(_, _)
write_doc_lines(s, ls) ==
    IF ls = <<>> THEN s
    ELSE write_doc_lines(newline(wr_all(s, Head(ls))), Tail(ls))

\* _doc: returns the state, the body without its docstring and the doc.
doc_comment(s, node, doc) ==
    IF doc.t # "None" /\ chars_of(doc) # <<>>
    THEN [s |-> newline(wr(write_doc_lines(
                               newline(wr(limitation(s, ~has_close_comment(chars_of(doc))),
                                          "/**")),
                               split_lines(chars_of(doc), <<>>)),
                           "*/")),
          body |-> Tail(node.body.v), doc |-> doc]
    ELSE [s |-> s, body |-> node.body.v, doc |-> doc]

_doc(s, node) == doc_comment(_sync(newline(s), node), node, get_docstring(node))

RECURSIVE visit(_, _)

RECURSIVE visit_list(_, _)
visit_list(s, nodes) ==
    IF nodes = <<>> THEN s ELSE visit_list(visit(s, Head(nodes)), Tail(nodes))

_suite(s, stmts) == block_exit(visit_list(block_enter(s), stmts))

RECURSIVE items_from(_, _, _)
items_from(s, items, i) ==
    IF i > Len(items) THEN s
    ELSE items_from(visit(IF i > 1 THEN wr(s, ", ") ELSE s, items[i]), items, i + 1)

\* if parens: wr(piece)
paren(s, parens, piece) == IF parens THEN wr(s, piece) ELSE s

_items(s, items, parens) ==
    paren(items_from(paren(s, parens, "("), items, 1), parens, ")")

visit_Return(s, node) ==
    IF node.value.t # "None"
    THEN newline(visit(wr_all(_sync(s, node), <<"return", " ">>), node.value))
    ELSE newline(wr(_sync(s, node), "return"))

visit_Expr(s, node) ==
    IF matches(node.value, [t |-> "Str", s |-> NoneV]) THEN _sync(s, node)
    ELSE newline(visit(_sync(s, node), node.value))

visit_Pass(s, node) == newline(wr(_sync(s, node), "/* pass */"))

visit_Break(s, node) == newline(wr(_sync(s, node), "break"))

visit_Num(s, node) == wr(_sync(s, node), str_num(node.n))

visit_Str(s, node) ==
    wr_all(_sync(s, node), <<"\"">> \o
           [i \in 1..Len(chars_of(node.s)) |-> string_escape(chars_of(node.s)[i])]
           \o <<"\"">>)

visit_Attribute(s, node) ==
    wr(wr(visit(_sync(s, node), node.value), "."), fix_kw(node.attr.v))

visit_Name(s, node) == wr(_sync(s, node), fix_kw(node.id.v))

visit_Tuple(s, node) == _items(_sync(s, node), node.elts.v, TRUE)

----------------------------------------------------------------------------
(* TypeDecls.parse_types. A text is the sequence of its characters; the    *)
(* four regular expressions are matched as re.findall matches them, from   *)
(* left to right without overlap. Each of them has one way to match at a   *)
(* given position (what follows a greedy \s+, \S+ or \w+ cannot start with *)
(* a character of the class), so a match is one scan.                      *)

WordChars ==
    {"a", "b", "c", "d", "e", "f", "g", "h", "i", "j", "k", "l", "m",
     "n", "o", "p", "q", "r", "s", "t", "u", "v", "w", "x", "y", "z",
     "A", "B", "C", "D", "E", "F", "G", "H", "I", "J", "K", "L", "M",
     "N", "O", "P", "Q", "R", "S", "T", "U", "V", "W", "X", "Y", "Z",
     "0", "1", "2", "3", "4", "5", "6", "7", "8", "9", "_"}

IsSpace(c) == c \in {" ", "\t", "\n", "\r"}

\* The character classes \s, \w, \S and . (any character but a newline).
in_class(cls, c) ==
    CASE cls = "s" -> IsSpace(c)
      [] cls = "w" -> c \in WordChars
      [] cls = "S" -> ~IsSpace(c)
      [] cls = "." -> c # "\n"

\* The index after the longest run from i of characters of the class.
RECURSIVE run_end(_, _, _)
run_end(cs, i, cls) ==
    IF i <= Len(cs) /\ in_class(cls, cs[i]) THEN run_end(cs, i + 1, cls) ELSE i

at_lit(cs, i, lit) ==
    /\ i + Len(lit) - 1 <= Len(cs)
    /\ \A k \in 1..Len(lit) : cs[i + k - 1] = lit[k]

NoHit == [hit |-> FALSE, end |-> 0, g1 |-> <<>>, g2 |-> <<>>]

\* :type\s+(\w+):\s+(.*)
lit_type == <<":", "t", "y", "p", "e">>
match_type(cs, i) ==
    IF ~at_lit(cs, i, lit_type) THEN NoHit
    ELSE LET a == i + Len(lit_type)
             b == run_end(cs, a, "s")
             c == run_end(cs, b, "w")
             d == run_end(cs, c + 1, "s")
             e == run_end(cs, d, ".")
         IN IF b > a /\ c > b /\ c <= Len(cs) /\ cs[c] = ":" /\ d > c + 1
            THEN [hit |-> TRUE, end |-> e, g1 |-> SubSeq(cs, b, c - 1),
                  g2 |-> SubSeq(cs, d, e - 1)]
            ELSE NoHit

\* :param\s+(\S+)\s+(\w+):
lit_param == <<":", "p", "a", "r", "a", "m">>
match_param(cs, i) ==
    IF ~at_lit(cs, i, lit_param) THEN NoHit
    ELSE LET a == i + Len(lit_param)
             b == run_end(cs, a, "s")
             c == run_end(cs, b, "S")
             d == run_end(cs, c, "s")
             e == run_end(cs, d, "w")
         IN IF b > a /\ c > b /\ d > c /\ e > d /\ e <= Len(cs) /\ cs[e] = ":"
            THEN [hit |-> TRUE, end |-> e + 1, g1 |-> SubSeq(cs, b, c - 1),
                  g2 |-> SubSeq(cs, d, e - 1)]
            ELSE NoHit

\* <marker>\s+(.*) for the markers :rtype: and :forall:
match_rest(cs, i, lit) ==
    IF ~at_lit(cs, i, lit) THEN NoHit
    ELSE LET a == i + Len(lit)
             b == run_end(cs, a, "s")
             e == run_end(cs, b, ".")
         IN IF b > a
            THEN [hit |-> TRUE, end |-> e, g1 |-> SubSeq(cs, b, e - 1), g2 |-> <<>>]
            ELSE NoHit

lit_rtype == <<":", "r", "t", "y", "p", "e", ":">>
lit_forall == <<":", "f", "o", "r", "a", "l", "l", ":">>
match_at(re, cs, i) ==
    CASE re = "type" -> match_type(cs, i)
      [] re = "param" -> match_param(cs, i)
      [] re = "rtype" -> match_rest(cs, i, lit_rtype)
      [] re = "forall" -> match_rest(cs, i, lit_forall)

\* re.findall: the matches from position i on, in order.
RECURSIVE findall(_, _, _)
findall(re, cs, i) ==
    IF i > Len(cs) THEN <<>>
    ELSE LET m == match_at(re, cs, i)
         IN IF m.hit THEN <<m>> \o findall(re, cs, m.end)
            ELSE findall(re, cs, i + 1)

Text(cs) == [t |-> "str", cs |-> cs]

\* A mutant of parse_types: the last :rtype and :forall markers win.
parse_types_last_wins(doc) ==
    LET ts == findall("type", doc, 1)
        ps == findall("param", doc, 1)
        rtypes == findall("rtype", doc, 1)
        foralls == findall("forall", doc, 1)
    IN [arg_types |-> [i \in 1..Len(ts) |-> <<ts[i].g1, ts[i].g2>>]
                        \o [i \in 1..Len(ps) |-> <<ps[i].g2, ps[i].g1>>],
        rtype |-> IF rtypes # <<>> THEN Text(rtypes[Len(rtypes)].g1) ELSE NoneV,
        foralls |-> IF foralls # <<>>
                    THEN <<"[">> \o foralls[Len(foralls)].g1 \o <<"]">>
                    ELSE <<>>]

parse_types(doc) ==
    LET ts == findall("type", doc, 1)
        ps == findall("param", doc, 1)
        rtypes == findall("rtype", doc, 1)
        foralls == findall("forall", doc, 1)
    IN [arg_types |-> [i \in 1..Len(ts) |-> <<ts[i].g1, ts[i].g2>>]
                        \o [i \in 1..Len(ps) |-> <<ps[i].g2, ps[i].g1>>],
        rtype |-> IF rtypes # <<>> THEN Text(rtypes[1].g1) ELSE NoneV,
        foralls |-> IF foralls # <<>> THEN <<"[">> \o foralls[1].g1 \o <<"]">>
                    ELSE <<>>]

----------------------------------------------------------------------------
(* Declarations: parameter lists, functions, lambdas, classes *)

\* The characters of an identifier (one-letter identifiers are themselves).
Spell(name) ==
    CASE name = "self" -> <<"s", "e", "l", "f">>
      [] name = "this" -> <<"t", "h", "i", "s">>
      [] name = "xs" -> <<"x", "s">>
      [] name = "__init__" -> <<"_", "_", "i", "n", "i", "t", "_", "_">>
      [] name = "__new__" -> <<"_", "_", "n", "e", "w", "_", "_">>
      [] name = "_f" -> <<"_", "f">>
      [] name = "me" -> <<"m", "e">>
      [] name = "dict" -> <<"d", "i", "c", "t">>
      [] name = "count" -> <<"c", "o", "u", "n", "t">>
      [] OTHER -> <<name>>

\* A value used as a condition: None and the empty text are false.
truthy(v) == v.t # "None" /\ (v.t = "str" => chars_of(v) # <<>>)

\* dict(types).get(name): the last binding of the name, or None.
types_get(types, name) ==
    LET hits == {i \in DOMAIN types : types[i][1] = Spell(name)}
    IN IF hits = {} THEN NoneV
       ELSE Text(types[CHOOSE i \in hits : \A j \in hits : j <= i][2])

_literal_type(expr) ==
    LET pats == <<[pat |-> [t |-> "Num", n |-> NoneV], ty |-> "Num"],
                  [pat |-> [t |-> "Str", s |-> NoneV], ty |-> "String"],
                  [pat |-> [t |-> "Name", id |-> S("True"), ctx |-> NoneV],
                   ty |-> "Boolean"],
                  [pat |-> [t |-> "Name", id |-> S("False"), ctx |-> NoneV],
                   ty |-> "Boolean"]>>
        types1 == SelectSeq(pats, LAMBDA p : matches(expr, p.pat))
        types2 == [i \in 1..Len(types1) |->
                      IF types1[i].ty = "Num"
                      THEN (IF expr.n.t = "float" THEN "Double" ELSE "Int")
                      ELSE types1[i].ty]
    IN IF types2 # <<>> THEN Text(<<types2[1]>>) ELSE NoneV

_arg_type(s, arg, default, types) ==
    LET fallback == IF top_is(s, "lambda") THEN NoneV ELSE Text(<<"Any">>)
        declared == IF arg.t = "Name" THEN types_get(types, arg.id.v)
                    ELSE IF arg.t = "str" THEN types_get(types, arg.v)
                    ELSE NoneV
        literal == IF default.t # "None" THEN _literal_type(default) ELSE NoneV
    IN IF truthy(declared) THEN declared
       ELSE IF truthy(literal) THEN literal
       ELSE fallback

add_arg_type(s, expr, default, types) ==
    LET arg_type == _arg_type(s, expr, default, types)
    IN IF truthy(arg_type) THEN wr_all(wr(s, ": "), chars_of(arg_type)) ELSE s

\* wr(x) for an x that may be None: a file object's write raises TypeError,
\* StringIO.StringIO's write returns at once on a false argument.
write_text(s, v) ==
    IF v.t = "None" THEN (IF sink = "file" THEN Raise(s, "TypeError") ELSE s)
    ELSE wr_all(s, chars_of(v))

comma(s, i) == IF i > 0 THEN wr(s, ", ") ELSE s

\* node.args[1:] inside a class definition, node.args elsewhere.
args_of(s, node) ==
    IF top_is(s, "ClassDef") THEN SubSeq(node.args.v, 2, Len(node.args.v))
    ELSE node.args.v

\* node.defaults[ix - default_ix] if ix >= default_ix else None, ix from 0.
default_of(args, defaults, i) ==
    IF i >= Len(args) - Len(defaults)
    THEN defaults[i - (Len(args) - Len(defaults)) + 1]
    ELSE NoneV

\* if default: wr('='); self.visit(default)
arg_default(s, default) ==
    IF default.t # "None" THEN visit(wr(s, "="), default) ELSE s

\* The loop of visit_arguments over the positional parameters; i counts
\* from 0 as in the code.
RECURSIVE args_from(_, _, _, _, _)
args_from(s, args, defaults, types, i) ==
    IF i >= Len(args) THEN s
    ELSE args_from(
             arg_default(
                 add_arg_type(visit(comma(s, i), args[i + 1]), args[i + 1],
                              default_of(args, defaults, i), types),
                 default_of(args, defaults, i)),
             args, defaults, types, i + 1)

\* ix when the loop is over: the index of the last parameter, 0 if none.
last_ix(args) == IF args = <<>> THEN 0 ELSE Len(args) - 1

\* if node.vararg: ...
vararg_part(s, node, types, i) ==
    IF node.vararg.t # "None"
    THEN wr(write_text(wr_all(comma(s, i), <<node.vararg.v, ": ">>),
                       _arg_type(s, node.vararg, NoneV, types)),
            "*")
    ELSE s

\* if node.kwarg: ...
kwarg_part(s, node, i) ==
    IF node.kwarg.t # "None"
    THEN wr_all(comma(s, i), <<"/* TODO kwarg */ ", node.kwarg.v, ": Dict[String, Any]">>)
    ELSE s

\* visit_arguments from the choice of args on.
arguments_from(s, node, types, args) ==
    kwarg_part(
        vararg_part(args_from(s, args, node.defaults.v, types, 0), node, types,
                    last_ix(args)),
        node,
        IF node.vararg.t # "None" THEN last_ix(args) + 1 ELSE last_ix(args))

visit_arguments(s, node, types) ==
    arguments_from(_sync(s, node), node, types, args_of(s, node))

\* copy_location(new, old)
loc(new, old) == [f \in DOMAIN new \cup {"lineno"} |->
                     IF f = "lineno" THEN old.lineno ELSE new[f]]

split_ret(stmts) ==
    IF Len(stmts) > 0 /\ stmts[Len(stmts)].t = "Return"
       /\ stmts[Len(stmts)].value.t # "None"
    THEN [suite |-> SubSeq(stmts, 1, Len(stmts) - 1), ret |-> stmts[Len(stmts)]]
    ELSE [suite |-> stmts, ret |-> NoneV]

\* option_fold(doc, self.parse_types, (None, None, ''))
doc_types(doc) ==
    IF doc.t = "None" THEN [arg_types |-> <<>>, rtype |-> NoneV, foralls |-> <<>>]
    ELSE parse_types(chars_of(doc))

\* rtypedecl = ': ' + rtype if rtype else ''
rtypedecl(s, rtype) ==
    IF truthy(rtype) THEN wr_all(wr(s, ": "), chars_of(rtype)) ELSE s

\* fun_sig after _doc (d) and parse_types (ty).
sig_typed(d, ty, node) ==
    [s |-> wr(rtypedecl(
                  wr(visit_arguments(
                         wr(wr_all(wr_all(d.s, <<"def ", node.name.v>>), ty.foralls),
                            "("),
                         node.args, ty.arg_types),
                     ")"),
                  ty.rtype),
              " = "),
     rtype |-> ty.rtype, body |-> d.body]

sig_documented(d, node) == sig_typed(d, doc_types(d.doc), node)

fun_sig(s, node) == sig_documented(_doc(s, node), node)

\* suite1 + [loc(ast.Expr(ret.value), ret)] if ret and not rtype else body
fun_suite(stmts, sr, rtype) ==
    IF sr.ret.t # "None" /\ ~truthy(rtype)
    THEN Append(sr.suite, loc([t |-> "Expr", value |-> sr.ret.value], sr.ret))
    ELSE stmts

\* filter_funbody raises ImplementationDetail in API mode, which fun_body
\* catches.
fun_body(s, stmts, rtype) ==
    IF api THEN s
    ELSE pop(_suite(push(s, "FunctionDef"), fun_suite(stmts, split_ret(stmts), rtype)))

RECURSIVE decorators_from(_, _)
decorators_from(s, exprs) ==
    IF exprs = <<>> THEN s
    ELSE decorators_from(newline(visit(wr(s, "@"), Head(exprs))), Tail(exprs))

_decorators(s, node) == decorators_from(_sync(s, node), node.decorator_list.v)

\* self.fun_body(body, rtype) on what fun_sig returned.
body_of_sig(f) == fun_body(f.s, f.body, f.rtype)

\* check_fun_name raises ImplementationDetail for a _name in API mode, which
\* visit_FunctionDef catches.
visit_FunctionDef(s, node) ==
    IF api /\ Spell(node.name.v)[1] = "_" THEN s
    ELSE body_of_sig(fun_sig(_decorators(s, node), node))

lambda_expr(s, node) ==
    pop(wr(visit(wr(visit_arguments(
                        wr(push(s, "lambda"),
                           IF node.args.defaults.v # <<>> THEN "new { def apply("
                           ELSE "("),
                        node.args, <<>>),
                    IF node.args.defaults.v # <<>> THEN ") = " ELSE ") => { "),
                 node.body),
           " }"))

visit_Lambda(s, node) == lambda_expr(_sync(s, node), node)

\* fp.option_iter(x): [] for None, [x] otherwise.
option_iter(x) == IF x.t = "None" THEN <<>> ELSE <<x>>

is_ctor(stmt) ==
    \E name \in {"__new__", "__init__"} :
        matches(stmt, [t |-> "FunctionDef", name |-> S(name), args |-> NoneV,
                       body |-> NoneV, decorator_list |-> NoneV])

\* fp.partition(suite, is_ctor): the statements that are constructors and
\* the others, each in order.
partition(suite) ==
    [yes |-> SelectSeq(suite, is_ctor), no |-> SelectSeq(suite, LAMBDA x : ~is_ctor(x))]

\* '\n'.join(option_iter(class_doc) + [s for fd in ctors for s in
\* option_iter(ast.get_docstring(fd))])
ctors_doc(class_doc, ctors) ==
    LET docs == option_iter(class_doc)
                  \o SelectSeq([i \in 1..Len(ctors) |-> get_docstring(ctors[i])],
                               LAMBDA d : d.t # "None")
    IN join_lines([i \in 1..Len(docs) |-> chars_of(docs[i])])

ctors_typed(s, parts, ty) ==
    [s |-> limitation(s, Len(parts.yes) <= 1), ctors |-> parts.yes,
     other |-> parts.no, arg_types |-> ty.arg_types, foralls |-> ty.foralls]

ctors_found(s, parts, class_doc) ==
    ctors_typed(s, parts,
                parse_types(ctors_doc(class_doc, parts.yes)))

_find_constructors(s, suite, class_doc) == ctors_found(s, partition(suite), class_doc)

RECURSIVE ctor_arguments(_, _, _)
ctor_arguments(s, ctors, types) ==
    IF ctors = <<>> THEN s
    ELSE ctor_arguments(visit_arguments(s, Head(ctors).args, types), Tail(ctors), types)

\* [b for b in node.bases if not (isinstance(b, ast.Name) and b.id == 'object')]
notObject(bases) == SelectSeq(bases, LAMBDA b : ~(b.t = "Name" /\ b.id.v = "object"))

extends(s, bases) ==
    IF notObject(bases) # <<>> THEN _items(wr(s, " extends "), notObject(bases), FALSE)
    ELSE s

\* class_sig after _find_constructors (fc).
sig_constructed(fc, node) ==
    [s |-> wr(extends(
                  wr(ctor_arguments(
                         wr(wr_all(wr_all(push(fc.s, "ClassDef"),
                                          <<"class ", node.name.v>>),
                                   fc.foralls),
                            "("),
                         fc.ctors, fc.arg_types),
                     ")"),
                  node.bases.v),
              " "),
     ctors |-> fc.ctors, body |-> fc.other]

class_documented(d, node) == sig_constructed(_find_constructors(d.s, d.body, d.doc), node)

class_sig(s, node) == class_documented(_doc(s, node), node)

RECURSIVE ctor_bodies(_, _)
ctor_bodies(s, ctors) ==
    IF ctors = <<>> THEN s
    ELSE ctor_bodies(visit_list(s, split_ret(Head(ctors).body.v).suite), Tail(ctors))

class_body(s, ctors, stmts) ==
    pop(block_exit(visit_list(
            ctor_bodies(newline(wr_all(block_enter(s), <<"self", " =>">>)), ctors),
            stmts)))

\* self.class_body(wr, ctors, body) on what class_sig returned.
body_of_class(c) == class_body(c.s, c.ctors, c.body)

visit_ClassDef(s, node) == body_of_class(class_sig(_decorators(s, node), node))

assign_field(s, targets) ==
    IF /\ top_is(s, "ClassDef")
       /\ Len(targets) = 1
       /\ matches(targets[1],
                  [t |-> "Attribute",
                   value |-> [t |-> "Name", id |-> S("self"), ctx |-> Load],
                   attr |-> NoneV, ctx |-> Store])
    THEN <<targets[1].attr.v>>
    ELSE <<>>

RECURSIVE write_fields(_, _)
write_fields(s, fields) ==
    IF fields = <<>> THEN s
    ELSE write_fields(wr_all(s, <<"var ", Head(fields)>>), Tail(fields))

\* The names bound by an assignment: its one Name target, or the elements
\* of its one Tuple target when all of them are Names.
target_names(targets) ==
    IF Len(targets) = 1 /\ targets[1].t = "Name" THEN <<targets[1]>>
    ELSE IF /\ Len(targets) = 1
            /\ targets[1].t = "Tuple"
            /\ \A i \in DOMAIN targets[1].elts.v : targets[1].elts.v[i].t = "Name"
         THEN targets[1].elts.v
         ELSE <<>>

\* The two limitation() calls of the 'var' branch; node.value.elts of a
\* value that is no Tuple is not reached.
var_limits(s, node) ==
    limitation(limitation(s, node.value.t = "Tuple"),
               node.value.t = "Tuple" /\ Len(node.value.elts.v) > 1)

\* A mutant of var_targets: the value's first element is kept.
var_targets_keep_first(s, node, names) ==
    [s |-> _items(wr(var_limits(s, node), "var "), Tail(names), Len(names) > 2),
     x |-> IF var_limits(s, node).err = "none"
           THEN loc([t |-> "Tuple", elts |-> L(node.value.elts.v)], node.value)
           ELSE node.value]

\* The branch of assign_targets for a first name 'var'.
var_targets(s, node, names) ==
    [s |-> _items(wr(var_limits(s, node), "var "), Tail(names), Len(names) > 2),
     x |-> IF var_limits(s, node).err = "none"
           THEN loc([t |-> "Tuple", elts |-> L(Tail(node.value.elts.v))], node.value)
           ELSE node.value]

\* assign_targets once the fields and the names are known.
targets_named(s, node, field1, names) ==
    IF field1 # <<>> THEN [s |-> write_fields(s, field1), x |-> node.value]
    ELSE IF Len(names) > 0
            /\ matches(names[1], [t |-> "Name", id |-> S("var"), ctx |-> Store])
         THEN var_targets(s, node, names)
    ELSE IF Len(names) > 0
         THEN [s |-> _items(wr(s, "val "), names, Len(names) > 1), x |-> node.value]
    ELSE [s |-> _items(s, node.targets.v, Len(node.targets.v) > 1), x |-> node.value]

\* Returns the state and the value still to be written.
assign_targets(s, node) ==
    targets_named(s, node, assign_field(s, node.targets.v), target_names(node.targets.v))

\* wr(' = '); self.visit(x); self.newline() on what assign_targets returned.
assign_value(r) == newline(visit(wr(r.s, " = "), r.x))

visit_Assign(s, node) == assign_value(assign_targets(_sync(s, node), node))

\* 'any_iter%s' % id(s) for s in [node.orelse] if node.orelse. id(s) is a
\* number that no other object alive has. The orelse lists of a tree are
\* all alive during the conversion; the row of the for statement, which no
\* other for statement starts on, stands for it.
elsevar_(node) ==
    IF node.orelse.v # <<>> THEN <<<<"any_iter", Digits[node.lineno + 1]>>>> ELSE <<>>

RECURSIVE for_var(_, _)
for_var(s, elsevars) ==
    IF elsevars = <<>> THEN s
    ELSE for_var(newline(wr_all(s, <<"var ">> \o Head(elsevars) \o <<" = false">>)),
                 Tail(elsevars))

RECURSIVE for_set(_, _)
for_set(s, elsevars) ==
    IF elsevars = <<>> THEN s
    ELSE for_set(newline(wr_all(s, Head(elsevars) \o <<" = true">>)), Tail(elsevars))

RECURSIVE for_orelse(_, _, _)
for_orelse(s, elsevars, node) ==
    IF elsevars = <<>> THEN s
    ELSE for_orelse(_suite(wr_all(s, <<"if (! ">> \o Head(elsevars) \o <<")">>),
                           node.orelse.v),
                    Tail(elsevars), node)

\* wr('for (') ... wr(') ')
for_head(s, node) ==
    wr(visit(wr(visit(wr(s, "for ("), node.target), " <- "), node.iter), ") ")

\* A mutant of for_block: the flag is set after the statements of the body.
for_block_set_last(s, node) ==
    block_exit(for_set(visit_list(block_enter(s), node.body.v), elsevar_(node)))

\* with self._block(): ...
for_block(s, node) ==
    block_exit(visit_list(for_set(block_enter(s), elsevar_(node)), node.body.v))

visit_For(s, node) ==
    for_orelse(for_block(for_head(for_var(_sync(s, node), elsevar_(node)), node), node),
               elsevar_(node), node)

\* A call pattern: ast.Call(func=ast.Name(id=name, ctx=None), args=args,
\* keywords=keywords, starargs=None, kwargs=None)
call_pat(name, args, keywords) ==
    [t |-> "Call", func |-> [t |-> "Name", id |-> S(name), ctx |-> NoneV],
     args |-> args, keywords |-> keywords, starargs |-> NoneV, kwargs |-> NoneV]

\* self.visit(args[i]), i from 0: an IndexError past the end of the list.
visit_arg(s, args, i) ==
    IF i >= Len(args) THEN Raise(s, "IndexError") ELSE visit(s, args[i + 1])

\* wr(': ' + node.args[1].s + ')')
typed_type(s, args) ==
    IF Len(args) < 2 THEN Raise(s, "IndexError")
    ELSE wr_all(s, <<": ", args[2].s.v, ")">>)

\* The state and what is left of node_opt.
typed_expr(s, node_opt) ==
    IF node_opt # <<>>
       /\ matches(node_opt[1],
                  call_pat("typed", L(<<NoneV, [t |-> "Str", s |-> NoneV]>>), L(<<>>)))
    THEN [s |-> typed_type(visit_arg(wr(s, "("), node_opt[1].args.v, 0),
                           node_opt[1].args.v),
          opt |-> <<>>]
    ELSE [s |-> s, opt |-> node_opt]

_reify_func(r) ==
    IF r.opt # <<>> /\ matches(r.opt[1], call_pat(partial_app, L(<<NoneV>>), L(<<>>)))
    THEN [s |-> wr(visit_arg(r.s, r.opt[1].args.v, 0), " _"), opt |-> <<>>]
    ELSE r

_reify_class(r) ==
    IF r.opt # <<>>
       /\ matches(r.opt[1],
                  call_pat("classOf", L(<<NoneV, [t |-> "Str", s |-> NoneV]>>), L(<<>>)))
    THEN [s |-> wr(visit_arg(wr(r.s, "classOf["), r.opt[1].args.v, 0), "]"),
          opt |-> <<>>]
    ELSE r

\* if node.args: self.visit(node.args[0]); wr(', ')
dict_arg(s, args) == IF args # <<>> THEN wr(visit(s, args[1]), ", ") ELSE s

\* for ix, kw in enumerate(node.keywords): ...
RECURSIVE dict_items(_, _, _)

\* A mutant of dict_items: the separator also before the first keyword.
dict_items_comma_first(s, keywords, i) ==
    IF i >= Len(keywords) THEN s
    ELSE dict_items(
             visit(wr_all(wr(s, ", "), <<"\"", keywords[i + 1].arg.v, "\"", " -> ">>),
                   keywords[i + 1].value),
             keywords, i + 1)

dict_items(s, keywords, i) ==
    IF i >= Len(keywords) THEN s
    ELSE dict_items(
             visit(wr_all(comma(s, i), <<"\"", keywords[i + 1].arg.v, "\"", " -> ">>),
                   keywords[i + 1].value),
             keywords, i + 1)

_reify_kwargs(r) ==
    IF r.opt # <<>>
       /\ matches(r.opt[1], call_pat("dict", NoneV, NoneV))
       /\ r.opt[1].keywords.v # <<>>
    THEN [s |-> wr(dict_items(
                       dict_arg(wr(limitation(r.s, Len(r.opt[1].args.v) <= 1), "dict("),
                                r.opt[1].args.v),
                       r.opt[1].keywords.v, 0),
                   ")"),
          opt |-> <<>>]
    ELSE r

reify(r) == _reify_kwargs(_reify_class(_reify_func(r)))

\* name[0].isupper() of the name of a Name or an Attribute
_is_class_ref(expr) ==
    LET Upper == {"A", "B", "C", "D", "E", "F", "G", "H", "I", "J", "K", "L", "M",
                  "N", "O", "P", "Q", "R", "S", "T", "U", "V", "W", "X", "Y", "Z"}
    IN \/ expr.t = "Name" /\ Spell(expr.id.v)[1] \in Upper
       \/ expr.t = "Attribute" /\ Spell(expr.attr.v)[1] \in Upper

adjust_class_call(s, func) == IF _is_class_ref(func) THEN wr(s, "new ") ELSE s

\* for kx, keyword in enumerate(node.keywords): ...
RECURSIVE call_keywords(_, _, _, _)
call_keywords(s, keywords, ax, kx) ==
    IF kx >= Len(keywords) THEN s
    ELSE call_keywords(
             visit(wr_all(comma(s, ax + kx), <<keywords[kx + 1].arg.v, "=">>),
                   keywords[kx + 1].value),
             keywords, ax, kx + 1)

\* if node.starargs: ...
call_starargs(s, node, n) ==
    IF node.starargs.t # "None"
    THEN wr(visit(comma(s, n), node.starargs), " : _*")
    ELSE s

\* if node.kwargs: ...
call_kwargs(s, node, n) ==
    IF node.kwargs.t # "None"
    THEN visit(wr(comma(s, n), "/* TODO kwargs using Dynamic? */ "), node.kwargs)
    ELSE s

\* The body of the loop of visit_Call, for a call that reify left alone; ax
\* and kx are len(node.args) and the index of the last keyword.
call_items(s, node, ax, kx) ==
    wr(call_kwargs(
           call_starargs(
               call_keywords(
                   _items(wr(visit(adjust_class_call(s, node.func), node.func), "("),
                          node.args.v, FALSE),
                   node.keywords.v, ax, 0),
               node, ax + kx),
           node, (IF node.starargs.t # "None" THEN ax + 1 ELSE ax) + kx),
       ")")

call_rest(r) ==
    IF r.opt = <<>> THEN r.s
    ELSE call_items(r.s, r.opt[1], Len(r.opt[1].args.v), last_ix(r.opt[1].keywords.v))

visit_Call(s, node) == call_rest(reify(typed_expr(_sync(s, node), <<node>>)))

\* The symbol of a comparison operator other than In and NotIn.
cmp_sym(op) ==
    CASE op.t = "Eq" -> "==" [] op.t = "NotEq" -> "!=" [] op.t = "Lt" -> "<"
      [] op.t = "LtE" -> "<=" [] op.t = "Gt" -> ">" [] op.t = "GtE" -> ">="
      [] op.t = "Is" -> "eq" [] op.t = "IsNot" -> "!="

\* One turn of visit_Compare's loop, after wr(sep).
compare_op(s, node, op, expr, left) ==
    IF op.t \in {"In", "NotIn"}
    THEN wr(visit(wr(visit(IF op.t = "NotIn" THEN wr(s, "! ") ELSE s, expr),
                     ".contains("),
                  node.left),
            ")")
    ELSE visit(wr_all(visit(s, left), <<" ", cmp_sym(op), " ">>), expr)

\* for op, expr in zip(node.ops, node.comparators), from the i-th pair on.
RECURSIVE compare_from(_, _, _, _)
compare_from(s, node, i, left) ==
    IF i > Min(Len(node.ops.v), Len(node.comparators.v)) THEN s
    ELSE compare_from(compare_op(wr(s, IF i = 1 THEN "" ELSE " && "), node,
                                 node.ops.v[i], node.comparators.v[i], left),
                      node, i + 1, node.comparators.v[i])

visit_Compare(s, node) == newline(compare_from(_sync(s, node), node, 1, node.left))

\* ReRaise.reraise(self, wr), called with the arguments given after self: a
\* call without the one it requires is a TypeError.
reraise(s, given) ==
    IF Len(given) # 1 THEN Raise(s, "TypeError") ELSE wr(s, "throw _ex")

\* visit_Raise from 'if node.type:' to the end of the else branch, which
\* calls self.reraise().
raise_forms(s, node) ==
    IF node.type.t # "None"
    THEN (IF node.inst.t # "None"
          THEN wr(visit(wr(visit(wr(s, "throw new "), node.type), "("), node.inst), ")")
          ELSE visit(wr(s, "throw "), node.type))
    ELSE reraise(s, <<>>)

visit_Raise(s, node) ==
    newline(raise_forms(_sync(limitation(s, node.tback.t = "None"), node), node))

\* lower0 of visit_Subscript
lower0(s, slice) ==
    IF slice.lower.t # "None" THEN visit(s, slice.lower) ELSE wr(s, "0")

\* The branch of visit_Subscript for a Slice in Load context, after its
\* limitation().
slice_read(s, slice) ==
    wr(IF slice.upper.t # "None"
       THEN visit(wr(lower0(wr(s, ".slice("), slice), ", "), slice.upper)
       ELSE IF slice.lower.t # "None" THEN visit(wr(s, ".drop("), slice.lower)
       ELSE wr(s, ".drop(0"),
       ")")

\* visit_Subscript after self.visit(node.value): the if chain on the
\* classes of the slice and of the context, which ends in limitation(True).
subscript_kinds(s, node) ==
    CASE node.slice.t = "Index" /\ node.ctx.t \in {"Load", "Store"} ->
           wr(visit(wr(s, "("), node.slice.value), ")")
      [] node.slice.t = "Index" /\ node.ctx.t = "Del" ->
           visit(wr(s, " -= "), node.slice.value)
      [] node.slice.t = "Slice" /\ node.ctx.t = "Load" ->
           slice_read(limitation(s, node.slice.step.t = "None"), node.slice)
      [] OTHER -> limitation(s, TRUE)

visit_Subscript(s, node) == subscript_kinds(visit(_sync(s, node), node.value), node)

\* visit_Delete: the targets are matched against a list of one pattern, and
\* the first target is the one translated.
visit_Delete(s, node) ==
    IF ~matches(node.targets,
                L(<<[t |-> "Subscript", value |-> NoneV,
                     slice |-> [t |-> "Index", value |-> NoneV], ctx |-> Del]>>))
    THEN limitation(s, FALSE)
    ELSE IF node.targets.v = <<>> THEN Raise(_sync(s, node), "IndexError")
    ELSE newline(wr(visit(wr(visit(_sync(s, node), node.targets.v[1].value),
                             ".__delitem__("),
                          node.targets.v[1].slice.value),
                    ")"))

\* generic_visit: a node class with no visit_ method. The message is
\* 'need visitor for: %s %s' % (node.__class__.__name__, node), and the
\* text of a node is that of any object: its class and its address.
generic_visit(s, node) ==
    IF s.err # "none" THEN s
    ELSE [s EXCEPT !.err = "NotImplementedError",
                   !.msg = <<"need visitor for: ", node.t, " ", "<_ast.", node.t,
                             " object at 0x...>">>]

\* getattr(self, 'visit_' + node.__class__.__name__, self.generic_visit)
visitor(s, node) ==
         CASE node.t = "Return" -> visit_Return(s, node)
           [] node.t = "FunctionDef" -> visit_FunctionDef(s, node)
           [] node.t = "ClassDef" -> visit_ClassDef(s, node)
           [] node.t = "Assign" -> visit_Assign(s, node)
           [] node.t = "Lambda" -> visit_Lambda(s, node)
           [] node.t = "For" -> visit_For(s, node)
           [] node.t = "Call" -> visit_Call(s, node)
           [] node.t = "Expr" -> visit_Expr(s, node)
           [] node.t = "Pass" -> visit_Pass(s, node)
           [] node.t = "Break" -> visit_Break(s, node)
           [] node.t = "Num" -> visit_Num(s, node)
           [] node.t = "Str" -> visit_Str(s, node)
           [] node.t = "Attribute" -> visit_Attribute(s, node)
           [] node.t = "Name" -> visit_Name(s, node)
           [] node.t = "Tuple" -> visit_Tuple(s, node)
           [] node.t = "Compare" -> visit_Compare(s, node)
           [] node.t = "Raise" -> visit_Raise(s, node)
           [] node.t = "Subscript" -> visit_Subscript(s, node)
           [] node.t = "Delete" -> visit_Delete(s, node)
           [] OTHER -> generic_visit(s, node)

\* NodeVisitor.visit: dispatch on the node's class.
visit(s, node) ==
    IF s.err # "none" THEN s
    ELSE visitor([s EXCEPT !.visits = Append(@, node)], node)

----------------------------------------------------------------------------
(* visit_Module, one step per statement of the module *)

\* The translator's state after a step; an exception ends the conversion.
Commit(s) ==
    /\ out' = s.out
    /\ line_ix' = s.line_ix
    /\ col' = s.col
    /\ def_stack' = s.def_stack
    /\ err' = s.err
    /\ msg' = s.msg
    /\ visits' = s.visits
    /\ pc' = IF s.err # "none" THEN "raised"
             ELSE IF pc = "body" /\ ix > Len(body) THEN "done"
             ELSE "body"

py_rt_imports ==
    <<"com.madmode.py2scala.{batteries => py}", "com.madmode.py2scala.__builtin__._">>

RECURSIVE write_imports(_, _)
write_imports(s, targets) ==
    IF targets = <<>> THEN s
    ELSE write_imports(wr_all(s, <<"import ", Head(targets), "\n">>), Tail(targets))

mod_attrs(s) == newline(wr_all(s, <<"val __name__ = \"", modname, "\"">>))

\* visit_Module from _doc's return to the loop over the statements.
Begun(d) ==
    /\ Commit(mod_attrs(block_enter(wr_all(d.s, <<"object ", modname, " ">>))))
    /\ body' = d.body

\* visit_Module up to its loop over the statements (pkg is None).
ModuleBegin ==
    /\ pc = "begin"
    /\ Begun(_doc(write_imports(State, py_rt_imports), tree))
    /\ ix' = 1
    /\ mark' = Len(out)
    /\ UNCHANGED <<candidate, pattern, tm_ret, txt, pt_ret, tree, lines, api, sink>>

\* One turn of the loop: self.visit(stmt).
VisitStmt ==
    /\ pc = "body"
    /\ ix <= Len(body)
    /\ Commit(visit(State, body[ix]))
    /\ ix' = ix + 1
    /\ mark' = Len(out)
    /\ UNCHANGED <<candidate, pattern, tm_ret, txt, pt_ret, tree, lines, api, sink,
                   body>>

\* The end of the with block and the final newline.
ModuleEnd ==
    /\ pc = "body"
    /\ ix > Len(body)
    /\ Commit(newline(block_exit(State)))
    /\ mark' = Len(out)
    /\ UNCHANGED <<candidate, pattern, tm_ret, txt, pt_ret, tree, lines, api, sink,
                   body, ix>>

NextConvert == ModuleBegin \/ VisitStmt \/ ModuleEnd

\* The state after PyToScala.__init__.
Constructed ==
    /\ pc = "begin" /\ body = <<>> /\ ix = 1 /\ out = <<>> /\ mark = 0
    /\ line_ix = 1 /\ col = 0 /\ def_stack = <<>> /\ err = "none"
    /\ msg = <<>> /\ visits = <<>>

\* The pieces written by the last step.
Written == SubSeq(out, mark + 1, Len(out))

----------------------------------------------------------------------------
(* Conversions of sources with comments: each row of the source is a pass  *)
(* statement, an expression statement, a comment, a pass statement with a  *)
(* trailing comment, or blank. convert() derives both the tree (ast.parse) *)
(* and the token lines (tokenize) from the same text.                      *)

RowKinds == {"pass", "name", "comment", "pass#", "blank"}

Sources == SeqsUpTo(RowKinds, MaxRows)

CommentNames == <<"c1", "c2", "c3", "c4", "c5", "c6">>

Tok(kind, text, row) == [kind |-> kind, text |-> text, row |-> row]

\* tokenize.generate_tokens: the tokens of one row, then of the rest, and
\* the ENDMARKER on the row after the last.
RowTokens(kind, r) ==
    CASE kind = "pass" -> <<Tok("NAME", <<"pass">>, r), Tok("NEWLINE", <<"\n">>, r)>>
      [] kind = "name" -> <<Tok("NAME", <<"x">>, r), Tok("NEWLINE", <<"\n">>, r)>>
      [] kind = "comment" ->
            <<Tok("COMMENT", <<"#", CommentNames[r]>>, r), Tok("NL", <<"\n">>, r)>>
      [] kind = "pass#" ->
            <<Tok("NAME", <<"pass">>, r), Tok("COMMENT", <<"#", CommentNames[r]>>, r),
              Tok("NEWLINE", <<"\n">>, r)>>
      [] kind = "blank" -> <<Tok("NL", <<"\n">>, r)>>

RECURSIVE SourceTokens(_, _)
SourceTokens(src, r) ==
    IF r > Len(src) THEN <<Tok("ENDMARKER", <<>>, r)>>
    ELSE RowTokens(src[r], r) \o SourceTokens(src, r + 1)

\* ast.parse: one statement per row that holds one, at that row.
RowStmt(kind, r) ==
    CASE kind \in {"pass", "pass#"} -> <<[t |-> "Pass", lineno |-> r]>>
      [] kind = "name" ->
            <<[t |-> "Expr", lineno |-> r,
               value |-> [t |-> "Name", id |-> S("x"), ctx |-> Load, lineno |-> r]]>>
      [] OTHER -> <<>>

RECURSIVE SourceStmts(_, _)
SourceStmts(src, r) ==
    IF r > Len(src) THEN <<>> ELSE RowStmt(src[r], r) \o SourceStmts(src, r + 1)

Module(stmts) == [t |-> "Module", body |-> L(stmts)]

InitSync ==
    /\ \E src \in Sources :
          /\ tree = Module(SourceStmts(src, 1))
          /\ lines = tokens_per_line(SourceTokens(src, 1))
    /\ api = FALSE /\ sink = "file"
    /\ Constructed
    /\ NoMatch /\ NoParse

SpecSync == InitSync /\ [][NextConvert]_vars

\* The texts of the source's comments, in source order, and the comment
\* texts among the pieces written, in the order written.
RECURSIVE CommentsOf(_)
CommentsOf(ls) ==
    IF ls = <<>> THEN <<>>
    ELSE LET cs == SelectSeq(Head(ls).toks, LAMBDA tok : tok.kind = "COMMENT")
         IN [i \in 1..Len(cs) |-> cs[i].text[2]] \o CommentsOf(Tail(ls))

IsCommentName(piece) == \E i \in DOMAIN CommentNames : CommentNames[i] = piece

CommentsWritten == SelectSeq(out, IsCommentName)

\* C1: when the conversion has finished, every comment of the source has
\* been written exactly once, and the comments are in source order.
C1_EveryCommentOnceInOrder == pc = "done" => CommentsWritten = CommentsOf(lines)

----------------------------------------------------------------------------
(* parse_types on its own: documentation texts of up to MaxDocLines lines, *)
(* each line one of the marker lines below (with what it declares) or a    *)
(* line without a marker.                                                  *)

DocLines ==
    <<
      [cs |-> <<":", "t", "y", "p", "e", " ", "x", ":", " ", "S", "t", "r", "i", "n", "g">>,
       kind |-> "type", name |-> <<"x">>, type |-> <<"S", "t", "r", "i", "n", "g">>],
      [cs |-> <<":", "t", "y", "p", "e", " ", "x", ":", " ", "D", "i", "c", "t", "[", "T", ",", " ", "U", "]">>,
       kind |-> "type", name |-> <<"x">>, type |-> <<"D", "i", "c", "t", "[", "T", ",", " ", "U", "]">>],
      [cs |-> <<" ", " ", ":", "t", "y", "p", "e", " ", "x", ":", " ", "D", "i", "c", "t", "[", "T", ",", " ", "U", "]">>,
       kind |-> "type", name |-> <<"x">>, type |-> <<"D", "i", "c", "t", "[", "T", ",", " ", "U", "]">>],
      [cs |-> <<":", "t", "y", "p", "e", " ", "n", ":", " ", "I", "n", "t">>,
       kind |-> "type", name |-> <<"n">>, type |-> <<"I", "n", "t">>],
      [cs |-> <<":", "r", "t", "y", "p", "e", ":", " ", "I", "n", "t">>,
       kind |-> "rtype", name |-> <<>>, type |-> <<"I", "n", "t">>],
      [cs |-> <<":", "r", "t", "y", "p", "e", ":", " ", "U", "n", "i", "t">>,
       kind |-> "rtype", name |-> <<>>, type |-> <<"U", "n", "i", "t">>],
      [cs |-> <<":", "p", "a", "r", "a", "m", " ", "S", "e", "q", "[", "S", "t", "r", "i", "n", "g", "]", " ", "x", "s", ":", " ", "a", "b", "c">>,
       kind |-> "param", name |-> <<"x", "s">>, type |-> <<"S", "e", "q", "[", "S", "t", "r", "i", "n", "g", "]">>],
      [cs |-> <<":", "p", "a", "r", "a", "m", " ", "S", "t", "r", "i", "n", "g", " ", "x", ":", " ", "a", "b", "c">>,
       kind |-> "param", name |-> <<"x">>, type |-> <<"S", "t", "r", "i", "n", "g">>],
      [cs |-> <<":", "f", "o", "r", "a", "l", "l", ":", " ", "T", ",", " ", "U">>,
       kind |-> "forall", name |-> <<>>, type |-> <<"T", ",", " ", "U">>],
      [cs |-> <<" ", " ", ":", "f", "o", "r", "a", "l", "l", ":", " ", "T", ",", " ", "U">>,
       kind |-> "forall", name |-> <<>>, type |-> <<"T", ",", " ", "U">>],
      [cs |-> <<":", "f", "o", "r", "a", "l", "l", ":", " ", "V">>,
       kind |-> "forall", name |-> <<>>, type |-> <<"V">>],
      [cs |-> <<"t", "h", "e", " ", "c", "o", "u", "n", "t">>,
       kind |-> "plain", name |-> <<>>, type |-> <<>>],
      [cs |-> <<>>,
       kind |-> "plain", name |-> <<>>, type |-> <<>>]
    >>

DocOf(idxs) == join_lines([i \in 1..Len(idxs) |-> DocLines[idxs[i]].cs])

\* The text of the doctest: an empty first line, then two indented markers.
DoctestDoc == DocOf(<<13, 10, 3>>)

Docs == {DocOf(idxs) : idxs \in SeqsUpTo(DOMAIN DocLines, MaxDocLines)} \cup {DoctestDoc}

InitParse ==
    /\ txt \in Docs
    /\ pt_ret = NoneV
    /\ NoMatch
    /\ Quiet

CallParseTypes ==
    /\ pt_ret = NoneV
    /\ pt_ret' = parse_types(txt)
    /\ UNCHANGED <<candidate, pattern, tm_ret, txt, tree, lines, api, sink,
                   pc, body, ix, out, mark, line_ix, col, def_stack, err, msg,
                   visits>>

NextParse == CallParseTypes

SpecParse == InitParse /\ [][NextParse]_vars

\* What the lines of a text declare, read off the table line by line.
LineInfo(line) == CHOOSE d \in {DocLines[i] : i \in DOMAIN DocLines} : d.cs = line

Declared(doc, kind) ==
    SelectSeq([i \in 1..Len(split_lines(doc, <<>>)) |->
                  LineInfo(split_lines(doc, <<>>)[i])],
              LAMBDA d : d.kind = kind)

PairsOf(ds) == [i \in 1..Len(ds) |-> <<ds[i].name, ds[i].type>>]

ExpectedTypes(doc) ==
    [arg_types |-> PairsOf(Declared(doc, "type")) \o PairsOf(Declared(doc, "param")),
     rtype |-> IF Declared(doc, "rtype") # <<>>
               THEN Text(Declared(doc, "rtype")[1].type) ELSE NoneV,
     foralls |-> IF Declared(doc, "forall") # <<>>
                 THEN <<"[">> \o Declared(doc, "forall")[1].type \o <<"]">>
                 ELSE <<>>]

Example(i, arg_types, rtype, foralls) ==
    txt = DocOf(i) => pt_ret = [arg_types |-> arg_types, rtype |-> rtype,
                                foralls |-> foralls]

\* C9: parse_types returns the :type bindings in order, then the :param
\* bindings in order, the first :rtype (or None) and the first :forall in
\* brackets (or the empty text); on ':type x: String' that is [(x, String)],
\* None, ''; on ':rtype: Int' it is [], Int, ''; on
\* ':param Seq[String] xs: abc' it is [(xs, Seq[String])]; on ':forall: T, U'
\* followed by ':type x: Dict[T, U]' it is [(x, Dict[T, U])], None, '[T, U]'.
C9_ParseTypes ==
    pt_ret # NoneV =>
        /\ pt_ret = ExpectedTypes(txt)
        /\ Example(<<1>>, <<<<DocLines[1].name, DocLines[1].type>>>>, NoneV, <<>>)
        /\ Example(<<5>>, <<>>, Text(<<"I", "n", "t">>), <<>>)
        /\ Example(<<7>>, <<<<DocLines[7].name, DocLines[7].type>>>>, NoneV, <<>>)
        /\ Example(<<9, 2>>, <<<<DocLines[2].name, DocLines[2].type>>>>, NoneV,
                   <<"[", "T", ",", " ", "U", "]">>)
        /\ Example(<<13, 10, 3>>, <<<<DocLines[2].name, DocLines[2].type>>>>, NoneV,
                   <<"[", "T", ",", " ", "U", "]">>)

\* A text with two :rtype markers, two :forall markers, a :param marker
\* before a :type marker has been parsed.
C9_Witness ==
    /\ pt_ret # NoneV
    /\ \/ txt = DocOf(<<5, 6>>)
       \/ txt = DocOf(<<9, 11>>)
       \/ txt = DocOf(<<8, 4>>)
    /\ pt_ret = ExpectedTypes(txt)

----------------------------------------------------------------------------
(* Syntax trees as ast.parse builds them, and the token lines of a source  *)
(* of n rows without comments.                                             *)

Name(id, ctx, ln) == [t |-> "Name", id |-> S(id), ctx |-> ctx, lineno |-> ln]
Num(n, ln) == [t |-> "Num", n |-> n, lineno |-> ln]
Str(text, ln) == [t |-> "Str", s |-> S(text), lineno |-> ln]
Tuple(elts, ctx, ln) == [t |-> "Tuple", elts |-> L(elts), ctx |-> ctx, lineno |-> ln]
Attribute(value, attr, ctx, ln) ==
    [t |-> "Attribute", value |-> value, attr |-> S(attr), ctx |-> ctx, lineno |-> ln]
Assign(targets, value, ln) ==
    [t |-> "Assign", targets |-> L(targets), value |-> value, lineno |-> ln]
Expr(value, ln) == [t |-> "Expr", value |-> value, lineno |-> ln]
Pass(ln) == [t |-> "Pass", lineno |-> ln]
Break(ln) == [t |-> "Break", lineno |-> ln]
Return(value, ln) == [t |-> "Return", value |-> value, lineno |-> ln]
arguments(args, vararg, kwarg, defaults) ==
    [t |-> "arguments", args |-> L(args), vararg |-> vararg, kwarg |-> kwarg,
     defaults |-> L(defaults)]
FunctionDef(name, args, stmts, ln) ==
    [t |-> "FunctionDef", name |-> S(name), args |-> args, body |-> L(stmts),
     decorator_list |-> L(<<>>), lineno |-> ln]
ClassDef(name, bases, stmts, ln) ==
    [t |-> "ClassDef", name |-> S(name), bases |-> L(bases), body |-> L(stmts),
     decorator_list |-> L(<<>>), lineno |-> ln]
For(target, iter, stmts, orelse, ln) ==
    [t |-> "For", target |-> target, iter |-> iter, body |-> L(stmts),
     orelse |-> L(orelse), lineno |-> ln]
keyword(arg, value) == [t |-> "keyword", arg |-> S(arg), value |-> value]
Call(func, args, keywords, starargs, kwargs, ln) ==
    [t |-> "Call", func |-> func, args |-> L(args), keywords |-> L(keywords),
     starargs |-> starargs, kwargs |-> kwargs, lineno |-> ln]
Lambda(args, expr, ln) == [t |-> "Lambda", args |-> args, body |-> expr, lineno |-> ln]

PlainTokens(n) ==
    [i \in 1..(2 * n) |->
        IF i % 2 = 1 THEN Tok("NAME", <<"x">>, (i + 1) \div 2)
        ELSE Tok("NEWLINE", <<"\n">>, i \div 2)]
      \o <<Tok("ENDMARKER", <<>>, n + 1)>>

PlainLines(n) == tokens_per_line(PlainTokens(n))

\* Names at row ln, in Store context.
StoreNames(ids, ln) == [i \in 1..Len(ids) |-> Name(ids[i], Store, ln)]

----------------------------------------------------------------------------
(* Conversions of a module of one assignment: the target is a name or a    *)
(* tuple of names, the first of them 'var' or not; the value is a name or  *)
(* a tuple.                                                                *)

ValueElems == {Name("z", Load, 1), Num(I(1), 1), Num(I(2), 1)}

AssignTargets ==
    {Tuple(StoreNames(<<first>> \o rest, 1), Store, 1) :
        first \in {"var", "a"}, rest \in SeqsUpTo({"a", "b"}, MaxNames)}
      \cup {Name("var", Store, 1), Name("a", Store, 1)}

AssignValues ==
    {Tuple(elts, Load, 1) : elts \in SeqsUpTo(ValueElems, MaxVals) \ {<<>>}}
      \cup {Name("z", Load, 1)}

Assigns == {Assign(<<tg>>, v, 1) : tg \in AssignTargets, v \in AssignValues}

InitAssign ==
    /\ \E a \in Assigns : tree = Module(<<a>>)
    /\ lines = PlainLines(1)
    /\ api = FALSE /\ sink = "file"
    /\ Constructed
    /\ NoMatch /\ NoParse

SpecAssign == InitAssign /\ [][NextConvert]_vars

\* The statement the last step visited, if it visited one.
Visited == pc \in {"body", "raised"} /\ ix > 1
Stmt == body[ix - 1]

\* The text of a name or number of these sources, and of a list of them
\* separated by ', '.
Shown(e) ==
    IF e.t = "Name" THEN e.id.v
    ELSE CASE e.n.v = 0 -> "0" [] e.n.v = 1 -> "1" [] e.n.v = 2 -> "2"

RECURSIVE Listed(_)
Listed(es) ==
    IF es = <<>> THEN <<>>
    ELSE IF Len(es) = 1 THEN <<Shown(es[1])>>
    ELSE <<Shown(es[1]), ", ">> \o Listed(Tail(es))

Parens(pieces) == <<"(">> \o pieces \o <<")">>

\* An assignment to a tuple of names headed by 'var'.
IsVarTuple(a) ==
    /\ a.t = "Assign"
    /\ Len(a.targets.v) = 1
    /\ a.targets.v[1].t = "Tuple"
    /\ a.targets.v[1].elts.v[1].id.v = "var"

Rest(a) == Tail(a.targets.v[1].elts.v)

\* C5: an assignment to a tuple of names headed by 'var', whose value is a
\* tuple of more than one element, is written as one 'var' binding of the
\* names after 'var' to the tuple of the elements after the first, and
\* nothing else: 'var, a, b = z, 1, 2' gives 'var (a, b) = (1, 2)'.
C5_VarDestructure ==
    (Visited /\ IsVarTuple(Stmt) /\ Stmt.value.t = "Tuple"
        /\ Len(Stmt.value.elts.v) > 1)
    => /\ err = "none"
       /\ Written =
            <<"var ">>
              \o (IF Len(Rest(Stmt)) > 1 THEN Parens(Listed(Rest(Stmt)))
                  ELSE Listed(Rest(Stmt)))
              \o <<" = ">> \o Parens(Listed(Tail(Stmt.value.elts.v)))
              \o <<"\n", " ", " ">>

\* 'var, a, b = z, 1, 2' has been translated.
C5_Witness ==
    /\ Visited
    /\ Stmt = Assign(<<Tuple(StoreNames(<<"var", "a", "b">>, 1), Store, 1)>>,
                     Tuple(<<Name("z", Load, 1), Num(I(1), 1), Num(I(2), 1)>>, Load, 1),
                     1)
    /\ Written = <<"var ", "(", "a", ", ", "b", ")", " = ", "(", "1", ", ", "2", ")",
                   "\n", " ", " ">>

\* C6: an assignment to a tuple headed by 'var' with more than one name
\* after it, whose value tuple has only one element after its first (as
\* 'var, a, b = z, 1'), fails with UnsupportedConstruct.
C6_OneTrailingValueFails ==
    (Visited /\ IsVarTuple(Stmt) /\ Len(Rest(Stmt)) > 1
        /\ Stmt.value.t = "Tuple" /\ Len(Stmt.value.elts.v) = 2)
    => err = "NotImplementedError"

----------------------------------------------------------------------------
(* Conversions of a module of one class with one method, __init__ or not,  *)
(* whose first parameter is named self or not, and whose body assigns to   *)
(* attributes of that parameter. The class is on row 1, the def on row 2,  *)
(* its statements on the rows after.                                       *)

FirstParams == {"self", "me"}
ParamLists == {<<>>, <<"n">>, <<"x">>, <<"n", "x">>, <<"x", "n">>}
MethodNames == {"__init__", "setup"}

\* first.attr = value on row ln
FieldAssign(first, attr, value, ln) ==
    Assign(<<Attribute(Name(first, Load, ln), attr, Store, ln)>>, value, ln)

\* The kinds of statement of a method body.
BodyKinds == {"count", "x", "pass", "a"}

BodyStmt(kind, first, ln) ==
    CASE kind = "count" -> FieldAssign(first, "count", Num(I(0), ln), ln)
      [] kind = "x" -> FieldAssign(first, "x", Name("n", Load, ln), ln)
      [] kind = "pass" -> Pass(ln)
      [] kind = "a" -> Assign(<<Name("a", Store, ln)>>, Num(I(1), ln), ln)

Method(name, first, params, kinds) ==
    FunctionDef(name,
                arguments([i \in 1..(Len(params) + 1) |->
                              [t |-> "Name",
                               id |-> S(IF i = 1 THEN first ELSE params[i - 1]),
                               ctx |-> Param, lineno |-> 2]],
                          NoneV, NoneV, <<>>),
                [i \in 1..Len(kinds) |-> BodyStmt(kinds[i], first, i + 2)],
                2)

InitClass ==
    /\ \E name \in MethodNames, first \in FirstParams, params \in ParamLists,
          kinds \in SeqsUpTo(BodyKinds, MaxCtorStmts) \ {<<>>} :
          /\ tree = Module(<<ClassDef("C", <<>>, <<Method(name, first, params, kinds)>>, 1)>>)
          /\ lines = PlainLines(Len(kinds) + 2)
    /\ api = FALSE /\ sink = "file"
    /\ Constructed
    /\ NoMatch /\ NoParse

SpecClass == InitClass /\ [][NextConvert]_vars

\* The class just visited has a constructor.
Ctor == Stmt.body.v[1]
HasCtor == Visited /\ Stmt.t = "ClassDef" /\ Ctor.name.v = "__init__"

\* The statement assigns to an attribute of the name.
IsFieldAssign(stmt, first) ==
    /\ stmt.t = "Assign"
    /\ stmt.targets.v[1].t = "Attribute"
    /\ stmt.targets.v[1].value.id.v = first

\* The pieces occur next to each other in the sequence.
Occurs(pieces, seq) ==
    \E k \in 0..(Len(seq) - Len(pieces)) : SubSeq(seq, k + 1, k + Len(pieces)) = pieces

First(piece, seq) == CHOOSE k \in 1..Len(seq) : seq[k] = piece /\ \A j \in 1..(k - 1) : seq[j] # piece

\* What is written between the class's '(' and ')'.
ClassParams == SubSeq(Written, First("(", Written) + 1, First(")", Written) - 1)

RECURSIVE AnyParams(_)
AnyParams(names) ==
    IF names = <<>> THEN <<>>
    ELSE IF Len(names) = 1 THEN <<names[1].id.v, ": ", "Any">>
    ELSE <<names[1].id.v, ": ", "Any", ", ">> \o AnyParams(Tail(names))

Promoted(first) ==
    /\ err = "none"
    /\ \A i \in DOMAIN Ctor.body.v :
          IsFieldAssign(Ctor.body.v[i], first)
          => Occurs(<<"var ", Ctor.body.v[i].targets.v[1].attr.v, " = ",
                      Shown(Ctor.body.v[i].value), "\n">>, Written)
    /\ ClassParams = AnyParams(Tail(Ctor.args.args.v))

\* C4: in a class with one constructor, every assignment of the
\* constructor's body to an attribute of the constructor's first parameter,
\* whatever its name, is written as 'var attr = value', and the class's
\* parameter list is the constructor's without the first parameter.
C4_FieldPromotion == HasCtor => Promoted(Ctor.args.args.v[1].id.v)

\* The same for the constructors whose first parameter is named self.
FieldPromotionOfSelf ==
    (HasCtor /\ Ctor.args.args.v[1].id.v = "self") => Promoted("self")

\* The number of 'var attr' declarations written by the last step.
VarDecls(attr) ==
    Cardinality({k \in 1..(Len(Written) - 1) :
                    Written[k] = "var " /\ Written[k + 1] = attr})

\* C21: in a class whose constructor assigns to attributes of self, each
\* attribute assigned to, once or more than once, is declared by exactly
\* one 'var attr'.
C21_FieldDeclaredOnce ==
    (HasCtor /\ Ctor.args.args.v[1].id.v = "self")
        => /\ err = "none"
           /\ \A i \in DOMAIN Ctor.body.v :
                 IsFieldAssign(Ctor.body.v[i], "self")
                     => VarDecls(Ctor.body.v[i].targets.v[1].attr.v) = 1

----------------------------------------------------------------------------
(* Conversions of a module of one for statement, with an else suite or     *)
(* without: 'for t in xs:' on row 1, the statements of its body on the     *)
(* rows after, then 'else:' and the statements of the else suite.          *)

LoopKinds == {"b", "break", "pass"}
ElseNames == {"e", "f"}

LoopStmt(kind, ln) ==
    CASE kind = "break" -> Break(ln)
      [] kind = "pass" -> Pass(ln)
      [] OTHER -> Expr(Name(kind, Load, ln), ln)

ForElse(kinds, names) ==
    For(Name("t", Store, 1), Name("xs", Load, 1),
        [i \in 1..Len(kinds) |-> LoopStmt(kinds[i], i + 1)],
        [i \in 1..Len(names) |-> LoopStmt(names[i], Len(kinds) + 2 + i)],
        1)

InitFor ==
    /\ \E kinds \in SeqsUpTo(LoopKinds, MaxLoopStmts) \ {<<>>},
          names \in SeqsUpTo(ElseNames, MaxLoopStmts) :
          /\ tree = Module(<<ForElse(kinds, names)>>)
          /\ lines = PlainLines(1 + Len(kinds)
                                  + (IF names = <<>> THEN 0 ELSE 1 + Len(names)))
    /\ api = FALSE /\ sink = "file"
    /\ Constructed
    /\ NoMatch /\ NoParse

SpecFor == InitFor /\ [][NextConvert]_vars

----------------------------------------------------------------------------
(* Running the text written for a for statement. The text is read as its   *)
(* statements: a flag's declaration and setting, the loop, the guarded     *)
(* suite, break, and any other statement, which is recorded when it runs.  *)
(* The loop runs its block once for each of the n elements of the iterated *)
(* sequence, and break leaves it.                                          *)

\* The pieces without the line breaks and the indentation.
Code(pieces) == SelectSeq(pieces, LAMBDA x : x \notin {" ", "\n"})

Next1(p, i, piece) == CHOOSE j \in i..Len(p) : p[j] = piece /\ \A k \in i..(j - 1) : p[k] # piece

RECURSIVE read_stmts(_, _)

Block(k, flag, b) == [stmt |-> [k |-> k, flag |-> flag, body |-> b.stmts], pos |-> b.pos + 1]

read_stmt(p, i) ==
    CASE p[i] = "var " -> [stmt |-> [k |-> "var", flag |-> <<p[i + 1], p[i + 2]>>],
                           pos |-> i + 4]
      [] p[i] = "any_iter" -> [stmt |-> [k |-> "set", flag |-> <<p[i], p[i + 1]>>],
                               pos |-> i + 3]
      [] p[i] = "for (" -> Block("for", <<>>, read_stmts(p, Next1(p, i, "{\n") + 1))
      [] p[i] = "if (! " -> Block("if", <<p[i + 1], p[i + 2]>>, read_stmts(p, i + 5))
      [] p[i] = "break" -> [stmt |-> [k |-> "break"], pos |-> i + 1]
      [] OTHER -> [stmt |-> [k |-> "do", what |-> p[i]], pos |-> i + 1]

Cons(r, rest) == [stmts |-> <<r.stmt>> \o rest.stmts, pos |-> rest.pos]

ReadRest(p, r) == Cons(r, read_stmts(p, r.pos))

read_stmts(p, i) ==
    IF i > Len(p) \/ p[i] = "}\n" THEN [stmts |-> <<>>, pos |-> i]
    ELSE ReadRest(p, read_stmt(p, i))

RECURSIVE run_stmts(_, _, _)
RECURSIVE run_loop(_, _, _, _)

run_stmt(stmt, st, n) ==
    CASE stmt.k = "var" -> [st EXCEPT !.on = @ \ {stmt.flag}]
      [] stmt.k = "set" -> [st EXCEPT !.on = @ \cup {stmt.flag}]
      [] stmt.k = "do" -> [st EXCEPT !.trace = Append(@, stmt.what)]
      [] stmt.k = "break" -> [st EXCEPT !.brk = TRUE]
      [] stmt.k = "if" -> IF stmt.flag \notin st.on THEN run_stmts(stmt.body, st, n) ELSE st
      [] stmt.k = "for" -> run_loop(stmt.body, st, n, n)

run_stmts(stmts, st, n) ==
    IF stmts = <<>> \/ st.brk THEN st
    ELSE run_stmts(Tail(stmts), run_stmt(Head(stmts), st, n), n)

Turn(block, st, n, left) ==
    IF st.brk THEN [st EXCEPT !.brk = FALSE] ELSE run_loop(block, st, n, left - 1)

run_loop(block, st, n, left) ==
    IF left = 0 THEN st ELSE Turn(block, run_stmts(block, st, n), n, left)

\* The statements recorded when the pieces are run over a sequence of n
\* elements.
Run(pieces, n) ==
    run_stmts(read_stmts(Code(pieces), 1).stmts,
              [on |-> {}, trace |-> <<>>, brk |-> FALSE], n).trace

ElseRun(pieces, n) == SelectSeq(Run(pieces, n), LAMBDA x : x \in ElseNames)

ElseSuite(node) == [i \in 1..Len(node.orelse.v) |-> node.orelse.v[i].value.id.v]

ForWritten == Visited /\ err = "none" /\ Stmt.t = "For" /\ Stmt.orelse.v # <<>>

\* C7: the text written for a for statement with an else suite, when run,
\* runs the else suite (once, in order) if the iterated sequence is empty
\* and runs none of it if the sequence has elements, also when the body
\* breaks in its first turn.
C7_ElseIffEmpty ==
    ForWritten =>
        \A n \in 0..MaxIter :
            ElseRun(Written, n) = IF n = 0 THEN ElseSuite(Stmt) ELSE <<>>

\* A loop that breaks at once, with an else suite, has been written: the
\* flag is declared, set first in the block, and guards the else suite.
C7_Witness ==
    /\ ForWritten
    /\ Stmt = ForElse(<<"break", "b">>, <<"e">>)
    /\ Code(Written) =
         <<"var ", "any_iter", "1", " = false", "for (", "t", " <- ", "xs", ") ",
           "{\n", "any_iter", "1", " = true", "break", "b", "}\n",
           "if (! ", "any_iter", "1", ")", "{\n", "e", "}\n">>
    /\ Run(Written, 0) = <<"e">>
    /\ Run(Written, 2) = <<>>

----------------------------------------------------------------------------
(* Conversions of a module of one call statement: dict, f or C applied to  *)
(* positional arguments, keyword arguments of distinct names, and a        *)
(* starred argument or none.                                               *)

CallArgs == SeqsUpTo({Name("a", Load, 1), Num(I(1), 1)}, MaxArgs)

KeywordNames == {<<>>, <<"x">>, <<"y">>, <<"x", "y">>, <<"y", "x">>}

CallKeywords ==
    UNION {{[i \in 1..Len(names) |-> keyword(names[i], vals[i])] :
              vals \in [1..Len(names) -> ValueElems]} : names \in KeywordNames}

Calls ==
    {Call(Name(f, Load, 1), args, kws, star, NoneV, 1) :
        f \in {"dict", "f", "C"}, args \in CallArgs, kws \in CallKeywords,
        star \in {NoneV, Name("r", Load, 1)}}

InitCall ==
    /\ \E c \in Calls : tree = Module(<<Expr(c, 1)>>)
    /\ lines = PlainLines(1)
    /\ api = FALSE /\ sink = "file"
    /\ Constructed
    /\ NoMatch /\ NoParse

SpecCall == InitCall /\ [][NextConvert]_vars

\* "name" -> value for each keyword, separated by ', '.
RECURSIVE Pairs(_)
Pairs(kws) ==
    IF kws = <<>> THEN <<>>
    ELSE <<"\"", kws[1].arg.v, "\"", " -> ", Shown(kws[1].value)>>
           \o (IF Len(kws) > 1 THEN <<", ">> ELSE <<>>) \o Pairs(Tail(kws))

\* A call of dict with at most one positional argument and with keywords.
IsDictOfKeywords(stmt) ==
    /\ stmt.t = "Expr" /\ stmt.value.t = "Call"
    /\ stmt.value.func.id.v = "dict"
    /\ Len(stmt.value.args.v) <= 1
    /\ stmt.value.keywords.v # <<>>

----------------------------------------------------------------------------
(* Conversions of a module of one declaration with parameters: a def, a    *)
(* class with a constructor, or a lambda. The parameters are one or two    *)
(* positional ones, the last of them with defaults or not, or one starred  *)
(* one; a def and a constructor declare the type of the first parameter in *)
(* their docstring or not. The sink is a file, as main's stdout is, or a   *)
(* StringIO.StringIO.                                                      *)

ParamNames == <<"x", "n">>

DefaultKinds == {"Int", "Double", "String", "Boolean", "z"}

Default(kind) ==
    CASE kind = "Int" -> Num(I(1), 1)
      [] kind = "Double" -> Num(F(3), 1)
      [] kind = "String" -> Str("s", 1)
      [] kind = "Boolean" -> Name("True", Load, 1)
      [] kind = "z" -> Name("z", Load, 1)

\* The positional parameters with their default kinds, "" for none; a
\* parameter without a default does not follow one with a default.
Positionals ==
    {ks \in SeqsUpTo(DefaultKinds \cup {""}, MaxParams) \ {<<>>} :
        Len(ks) <= Len(ParamNames)
        /\ \A i \in 1..(Len(ks) - 1) : ks[i] # "" => ks[i + 1] # ""}

Arguments(first, ks, star) ==
    arguments(first \o [i \in 1..Len(ks) |->
                           [t |-> "Name", id |-> S(ParamNames[i]), ctx |-> Param,
                            lineno |-> 1]],
              star, NoneV,
              [i \in 1..Len(SelectSeq(ks, LAMBDA k : k # "")) |->
                  Default(SelectSeq(ks, LAMBDA k : k # "")[i])])

Signatures ==
    {[ks |-> ks, star |-> NoneV] : ks \in Positionals}
      \cup {[ks |-> <<>>, star |-> S("a")]}

\* ':type <name>: String'
TypeDoc(name) ==
    <<":", "t", "y", "p", "e", " ", name, ":", " ", "S", "t", "r", "i", "n", "g">>

\* The body of a def: its docstring, if it has one, and pass.
DocBody(doc, ln) ==
    (IF doc = <<>> THEN <<>>
     ELSE <<Expr([t |-> "Str", s |-> Text(doc), lineno |-> ln], ln)>>)
      \o <<Pass(ln + 1)>>

Declaration(kind, pl, doc) ==
    CASE kind = "def" ->
           FunctionDef("f", Arguments(<<>>, pl.ks, pl.star), DocBody(doc, 2), 1)
      [] kind = "class" ->
           ClassDef("C", <<>>,
                    <<FunctionDef("__init__",
                                  Arguments(<<[t |-> "Name", id |-> S("self"),
                                               ctx |-> Param, lineno |-> 2]>>,
                                            pl.ks, pl.star),
                                  DocBody(doc, 3), 2)>>,
                    1)
      [] kind = "lambda" ->
           Expr(Lambda(Arguments(<<>>, pl.ks, pl.star), Name("z", Load, 1), 1), 1)

\* The name whose type a docstring may declare.
Declarable(pl) == IF pl.ks = <<>> THEN "a" ELSE "x"

InitParams ==
    /\ \E kind \in {"def", "class", "lambda"}, pl \in Signatures,
          declared \in BOOLEAN :
          /\ declared => kind # "lambda"
          /\ tree = Module(<<Declaration(kind, pl,
                                         IF declared THEN TypeDoc(Declarable(pl))
                                         ELSE <<>>)>>)
    /\ lines = PlainLines(4)
    /\ api = FALSE
    /\ sink \in {"file", "StringIO"}
    /\ Constructed
    /\ NoMatch /\ NoParse

SpecParams == InitParams /\ [][NextConvert]_vars

\* The declaration just visited, its parameter list and its docstring.
IsLambda == Stmt.t = "Expr"
Decl == IF Stmt.t = "ClassDef" THEN Stmt.body.v[1] ELSE Stmt
Args == IF IsLambda THEN Stmt.value.args ELSE Decl.args
Listed_ == IF Stmt.t = "ClassDef" THEN Tail(Args.args.v) ELSE Args.args.v
DeclDoc == IF IsLambda \/ Decl.body.v[1].t # "Expr" THEN <<>> ELSE Decl.body.v[1].value.s.cs

\* What is written between the opening and the closing of the parameters.
Opened == CHOOSE k \in 1..Len(Written) :
              /\ Written[k] \in {"(", "new { def apply("}
              /\ \A j \in 1..(k - 1) : Written[j] \notin {"(", "new { def apply("}
Closed == CHOOSE k \in 1..Len(Written) :
              /\ Written[k] \in {")", ") = ", ") => { "}
              /\ \A j \in 1..(k - 1) : Written[j] \notin {")", ") = ", ") => { "}
ParamText == SubSeq(Written, Opened + 1, Closed - 1)

\* The type of a parameter by the order of resolution: the declared type,
\* else the type of a literal default, else Any, or nothing in a lambda.
TypeOf(name, default) ==
    IF DeclDoc = TypeDoc(name) THEN <<"S", "t", "r", "i", "n", "g">>
    ELSE IF default.t = "Num" THEN (IF default.n.t = "int" THEN <<"Int">> ELSE <<"Double">>)
    ELSE IF default.t = "Str" THEN <<"String">>
    ELSE IF default.t = "Name" /\ default.id.v = "True" THEN <<"Boolean">>
    ELSE IF IsLambda THEN <<>>
    ELSE <<"Any">>

DefaultText(default) ==
    CASE default.t = "None" -> <<>>
      [] default.t = "Num" -> <<"=", IF default.n.t = "int" THEN "1" ELSE "1.5">>
      [] default.t = "Str" -> <<"=", "\"", "s", "\"">>
      [] default.t = "Name" -> <<"=", default.id.v>>

Typed(ty) == IF ty = <<>> THEN <<>> ELSE <<": ">> \o ty

DefaultAt(i) ==
    IF i > Len(Listed_) - Len(Args.defaults.v)
    THEN Args.defaults.v[i - (Len(Listed_) - Len(Args.defaults.v))]
    ELSE NoneV

RECURSIVE ParamsFrom(_)
ParamsFrom(i) ==
    IF i > Len(Listed_) THEN <<>>
    ELSE (IF i > 1 THEN <<", ">> ELSE <<>>)
           \o <<Listed_[i].id.v>> \o Typed(TypeOf(Listed_[i].id.v, DefaultAt(i)))
           \o DefaultText(DefaultAt(i)) \o ParamsFrom(i + 1)

ExpectedParams ==
    IF Args.vararg.t # "None"
    THEN <<Args.vararg.v, ": ">> \o TypeOf(Args.vararg.v, NoneV) \o <<"*">>
    ELSE ParamsFrom(1)

\* C10: every parameter is written with its declared type if it has one,
\* else with Int, Double, String or Boolean after a literal default of that
\* kind, else with Any, and in a lambda with no type instead of Any; and no
\* step raises an error.
C10_ParamTypes == Visited => (err = "none" /\ ParamText = ExpectedParams)

\* The same without the starred parameter of a lambda.
ParamTypesButLambdaStar ==
    (Visited /\ ~(IsLambda /\ Args.vararg.t # "None"))
        => (err = "none" /\ ParamText = ExpectedParams)

----------------------------------------------------------------------------
(* Conversions that meet a construct the translator does not support: a    *)
(* module of up to MaxStmts statements, each a pass, a name, an            *)
(* assignment to 'var, a' from a name (refused by limitation), an exec     *)
(* statement or a backquoted expression (no visit_ method), or a def whose *)
(* body is one of these. Statement i is on row 2i - 1, the body of a def   *)
(* on the row after. pdb.set_trace() is left with 'continue', so that the  *)
(* raise statement after it runs.                                          *)

Exec(code, ln) ==
    [t |-> "Exec", body |-> code, globals |-> NoneV, locals |-> NoneV, lineno |-> ln]
Repr(value, ln) == [t |-> "Repr", value |-> value, lineno |-> ln]

SimpleKinds == {"pass", "name", "var", "exec", "repr"}

Simple(kind, ln) ==
    CASE kind = "pass" -> Pass(ln)
      [] kind = "name" -> Expr(Name("z", Load, ln), ln)
      [] kind = "var" -> Assign(<<Tuple(StoreNames(<<"var", "a">>, ln), Store, ln)>>,
                                Name("z", Load, ln), ln)
      [] kind = "exec" -> Exec(Name("z", Load, ln), ln)
      [] kind = "repr" -> Expr(Repr(Name("z", Load, ln), ln), ln)

NoParams == arguments(<<>>, NoneV, NoneV, <<>>)

Shapes == SimpleKinds \cup {<<"def", k>> : k \in SimpleKinds}

Shaped(shape, ln) ==
    IF shape \in SimpleKinds THEN Simple(shape, ln)
    ELSE FunctionDef("f", NoParams, <<Simple(shape[2], ln + 1)>>, ln)

InitUnsupported ==
    /\ \E shapes \in SeqsUpTo(Shapes, MaxStmts) \ {<<>>} :
          /\ tree = Module([i \in 1..Len(shapes) |-> Shaped(shapes[i], 2 * i - 1)])
          /\ lines = PlainLines(2 * Len(shapes))
    /\ api = FALSE /\ sink = "file"
    /\ Constructed
    /\ NoMatch /\ NoParse

SpecUnsupported == InitUnsupported /\ [][NextConvert]_vars

\* The node the translator was at when the exception was raised: the last
\* one visit was called on.
Offender == visits[Len(visits)]

Reports(piece) == \E i \in 1..Len(msg) : msg[i] = piece

\* C11: a conversion that fails on an unsupported construct stops at once,
\* and the error raised carries the row of the offending node and the name
\* of its node class.
C11_ErrorReportsPositionAndKind ==
    err = "NotImplementedError"
        => /\ pc = "raised"
           /\ Reports(Offender.t)
           /\ Reports(Digits[Offender.lineno + 1])

\* C15: the indentation column moves by block entries and exits only, and
\* once the conversion has left the module's block, by completing it or by
\* an exception raised for a statement inside it, the column is again what
\* it was before the block was entered.
C15_IndentationRestored ==
    /\ col % 2 = 0
    /\ pc \in {"done", "raised"} => col = 0

----------------------------------------------------------------------------
(* Conversions in API mode and out of it: a module of up to MaxStmts       *)
(* definitions, each a def f or _f, or a class C with one member:          *)
(* __init__, a method m or a method _f. The body of every function is one  *)
(* statement. Item i starts on row 3i - 2; a def in a class is on the row  *)
(* after the class, and a body on the row after its def.                   *)

ItemKinds == {"f", "_f", "C.__init__", "C.m", "C._f"}

SelfParams(names, ln) ==
    arguments([i \in 1..Len(names) |->
                  [t |-> "Name", id |-> S(names[i]), ctx |-> Param, lineno |-> ln]],
              NoneV, NoneV, <<>>)

Item(kind, ln) ==
    CASE kind = "f" ->
           FunctionDef("f", NoParams, <<Expr(Name("z", Load, ln + 1), ln + 1)>>, ln)
      [] kind = "_f" ->
           FunctionDef("_f", NoParams, <<Expr(Name("z", Load, ln + 1), ln + 1)>>, ln)
      [] kind = "C.__init__" ->
           ClassDef("C", <<>>,
                    <<FunctionDef("__init__", SelfParams(<<"self", "n">>, ln + 1),
                                  <<FieldAssign("self", "x", Name("n", Load, ln + 2),
                                                ln + 2)>>,
                                  ln + 1)>>,
                    ln)
      [] kind = "C.m" ->
           ClassDef("C", <<>>,
                    <<FunctionDef("m", SelfParams(<<"self">>, ln + 1),
                                  <<Expr(Name("z", Load, ln + 2), ln + 2)>>, ln + 1)>>,
                    ln)
      [] kind = "C._f" ->
           ClassDef("C", <<>>,
                    <<FunctionDef("_f", SelfParams(<<"self">>, ln + 1),
                                  <<Expr(Name("z", Load, ln + 2), ln + 2)>>, ln + 1)>>,
                    ln)

InitApi ==
    /\ \E kinds \in SeqsUpTo(ItemKinds, MaxStmts) \ {<<>>} :
          /\ tree = Module([i \in 1..Len(kinds) |-> Item(kinds[i], 3 * i - 2)])
          /\ lines = PlainLines(3 * Len(kinds))
    /\ api \in BOOLEAN /\ sink = "file"
    /\ Constructed
    /\ NoMatch /\ NoParse

SpecApi == InitApi /\ [][NextConvert]_vars

\* The statements of the bodies of the functions defined by the statements,
\* at module level or in a class.
RECURSIVE FunBodies(_)
FunBodies(stmts) ==
    IF stmts = <<>> THEN {}
    ELSE FunBodies(Tail(stmts))
           \cup (CASE Head(stmts).t = "FunctionDef" ->
                        {Head(stmts).body.v[i] : i \in 1..Len(Head(stmts).body.v)}
                   [] Head(stmts).t = "ClassDef" -> FunBodies(Head(stmts).body.v)
                   [] OTHER -> {})

WasVisited(node) == \E i \in 1..Len(visits) : visits[i] = node

\* The last step wrote a def.
WroteDef == \E i \in 1..Len(Written) : Written[i] = "def "

\* The statement is a _name function, or a class whose member is one (the
\* constructor is a retained function).
Hidden(stmt) ==
    \/ stmt.t = "FunctionDef" /\ stmt.name.v = "_f"
    \/ stmt.t = "ClassDef" /\ stmt.body.v[1].name.v = "_f"

\* C12: in API mode nothing is raised and every statement of the module is
\* reached; a _name function writes nothing and a _name method writes no
\* def; and no statement of the body of any function, a constructor
\* included, is translated.
C12_ApiOnlySignatures ==
    (api /\ Visited)
        => /\ err = "none"
           /\ \A j \in 1..(ix - 1) : WasVisited(body[j])
           /\ (Stmt.t = "FunctionDef" /\ Hidden(Stmt)) => Written = <<>>
           /\ Hidden(Stmt) => ~WroteDef
           /\ \A st \in FunBodies(body) : ~WasVisited(st)

----------------------------------------------------------------------------
(* Conversions of declarations in every scope: a module of up to MaxStmts  *)
(* items, each placing a declaration with the parameters (a, b), a def g   *)
(* or a lambda, at module level, in the body of a function, directly in a  *)
(* class, in the body of a method, or in the body of a constructor. Item i *)
(* starts on row 4i - 3 and each level of nesting is one row further down. *)

Places == {"module", "function", "class", "method", "ctor"}
DeclKinds == {"def", "lambda"}

\* def g(a, b): pass, or y = lambda a, b: z
Decl_(kind, ln) ==
    IF kind = "def"
    THEN FunctionDef("g", SelfParams(<<"a", "b">>, ln), <<Pass(ln + 1)>>, ln)
    ELSE Assign(<<Name("y", Store, ln)>>,
                Lambda(SelfParams(<<"a", "b">>, ln), Name("z", Load, ln), ln), ln)

Placed(place, kind, ln) ==
    CASE place = "module" -> Decl_(kind, ln)
      [] place = "function" -> FunctionDef("f", NoParams, <<Decl_(kind, ln + 1)>>, ln)
      [] place = "class" -> ClassDef("C", <<>>, <<Decl_(kind, ln + 1)>>, ln)
      [] place = "method" ->
           ClassDef("C", <<>>,
                    <<FunctionDef("m", SelfParams(<<"self">>, ln + 1),
                                  <<Decl_(kind, ln + 2)>>, ln + 1)>>,
                    ln)
      [] place = "ctor" ->
           ClassDef("C", <<>>,
                    <<FunctionDef("__init__", SelfParams(<<"self">>, ln + 1),
                                  <<Decl_(kind, ln + 2)>>, ln + 1)>>,
                    ln)

InitScopes ==
    /\ \E items \in SeqsUpTo(Places \X DeclKinds, MaxStmts) \ {<<>>} :
          /\ tree = Module([i \in 1..Len(items) |->
                               Placed(items[i][1], items[i][2], 4 * i - 3)])
          /\ lines = PlainLines(4 * Len(items))
    /\ api = FALSE /\ sink = "file"
    /\ Constructed
    /\ NoMatch /\ NoParse

SpecScopes == InitScopes /\ [][NextConvert]_vars

\* Where the declaration of the statement just visited is, and its kind.
PlaceOf(stmt) ==
    CASE stmt.t = "ClassDef" ->
           (IF stmt.body.v[1].t = "FunctionDef" /\ stmt.body.v[1].name.v = "m"
            THEN "method"
            ELSE IF stmt.body.v[1].t = "FunctionDef"
                    /\ stmt.body.v[1].name.v = "__init__"
            THEN "ctor"
            ELSE "class")
      [] stmt.t = "FunctionDef" /\ stmt.name.v = "f" -> "function"
      [] OTHER -> "module"

RECURSIVE Innermost(_)
Innermost(stmt) ==
    IF stmt.t = "Assign" \/ (stmt.t = "FunctionDef" /\ stmt.name.v = "g") THEN stmt
    ELSE Innermost(stmt.body.v[1])

WroteName(id) == \E i \in 1..Len(Written) : Written[i] = id

\* C13: the first parameter of a declaration is left out when the
\* declaration is a def directly in a class, and kept everywhere else: at
\* module level, in the body of a function, of a method and of a
\* constructor, and in every lambda.
C13_FirstParameterElision ==
    Visited
        => /\ err = "none"
           /\ WroteName("b")
           /\ WroteName("a")
                <=> ~(PlaceOf(Stmt) = "class" /\ Innermost(Stmt).t = "FunctionDef")

\* C14: between the statements of the module no tag of a function, class or
\* lambda is left on the scope stack, whatever the definitions translated
\* so far; and when a statement of the module's body is about to be
\* translated, the stack is not empty.
C14_StackDiscipline ==
    (pc = "body" /\ err = "none")
        => /\ \A i \in 1..Len(def_stack) :
                 def_stack[i] \notin {"FunctionDef", "ClassDef", "lambda"}
           /\ ix <= Len(body) => def_stack # <<>>

----------------------------------------------------------------------------
(* Conversions of a module of up to MaxStmts expression statements, each a *)
(* comparison of the names a, b, c ... with up to MaxOps operators, or a   *)
(* text. Statement i is on row i.                                          *)

Compare(left, ops, comparators, ln) ==
    [t |-> "Compare", left |-> left, ops |-> L(ops), comparators |-> L(comparators),
     lineno |-> ln]

CmpOps == {[t |-> "Lt"], [t |-> "Eq"], [t |-> "In"], [t |-> "NotIn"]}

Operands == <<"a", "b", "c", "d">>

\* a op1 b op2 c ... on row ln; no operator: the text 's'.
CompareStmt(ops, ln) ==
    IF ops = <<>> THEN Expr(Str("s", ln), ln)
    ELSE Expr(Compare(Name("a", Load, ln), ops,
                      [i \in 1..Len(ops) |-> Name(Operands[i + 1], Load, ln)], ln),
              ln)

InitCompare ==
    /\ \E chains \in SeqsUpTo(SeqsUpTo(CmpOps, MaxOps), MaxStmts) \ {<<>>} :
          /\ tree = Module([i \in 1..Len(chains) |-> CompareStmt(chains[i], i)])
          /\ lines = PlainLines(Len(chains))
    /\ api = FALSE /\ sink = "file"
    /\ Constructed
    /\ NoMatch /\ NoParse

SpecCompare == InitCompare /\ [][NextConvert]_vars

\* The statement and expression nodes of a statement of these modules.
NodesOf(stmt) ==
    {stmt, stmt.value}
      \cup (IF stmt.value.t = "Compare"
            THEN {stmt.value.left}
                   \cup {stmt.value.comparators.v[i] :
                           i \in 1..Len(stmt.value.comparators.v)}
            ELSE {})

TreeNodes == UNION {NodesOf(tree.body.v[i]) : i \in 1..Len(tree.body.v)}

VisitCount(node) == Cardinality({i \in 1..Len(visits) : visits[i] = node})

\* C16: when a conversion has succeeded, every statement and expression
\* node of the module has been visited exactly once.
C16_EveryNodeOnce ==
    (pc = "done" /\ err = "none") => \A n \in TreeNodes : VisitCount(n) = 1

\* The i-th term of the chain: operand i - 1 (the left operand for i = 1)
\* related to comparator i.
ChainTerm(cmp, i) ==
    LET l == IF i = 1 THEN cmp.left.id.v ELSE cmp.comparators.v[i - 1].id.v
        r == cmp.comparators.v[i].id.v
    IN CASE cmp.ops.v[i].t = "In" -> <<r, ".contains(", l, ")">>
         [] cmp.ops.v[i].t = "NotIn" -> <<"! ", r, ".contains(", l, ")">>
         [] cmp.ops.v[i].t = "Lt" -> <<l, " ", "<", " ", r>>
         [] cmp.ops.v[i].t = "Eq" -> <<l, " ", "==", " ", r>>

RECURSIVE ChainText(_, _)
ChainText(cmp, i) ==
    IF i > Len(cmp.ops.v) THEN <<>>
    ELSE (IF i > 1 THEN <<" && ">> ELSE <<>>) \o ChainTerm(cmp, i) \o ChainText(cmp, i + 1)

\* The pieces written by the last step that are not the empty text.
WrittenText == SelectSeq(Written, LAMBDA piece : piece # "")

\* C23: a comparison chain is written as its pairwise terms joined by
\* ' && ', term i relating operand i - 1 and operand i; a membership test
\* is written as operand i '.contains(' operand i - 1 ')', after '! ' for
\* not in, at any place in the chain.
C23_ComparisonChain ==
    (Visited /\ Stmt.value.t = "Compare")
        => /\ err = "none"
           /\ WrittenText = ChainText(Stmt.value, 1) \o <<"\n", " ", " ", "\n", " ", " ">>

----------------------------------------------------------------------------
(* Conversions of sources whose expressions span rows: up to MaxItems      *)
(* items of two rows each, item i on rows 2i - 1 and 2i. An item is a pass *)
(* statement, a comment, or a membership test written on one row           *)
(* ('n1 in n2') or on two ('(n1 in' and 'n2)'), each with trailing         *)
(* comments on its rows or without; the second row of a one-row item is    *)
(* blank. The operand on row r is named after the row.                     *)

ItemShapes ==
    {[kind |-> k, c1 |-> c1, c2 |-> c2] :
        k \in {"pass", "in1", "in2"}, c1, c2 \in BOOLEAN}
      \cup {[kind |-> "comment", c1 |-> TRUE, c2 |-> FALSE]}

RowNames == <<"n1", "n2", "n3", "n4", "n5", "n6">>
RightNames == <<"m1", "m2", "m3", "m4", "m5", "m6">>

Trailing(has, r) == IF has THEN <<Tok("COMMENT", <<"#", CommentNames[r]>>, r)>> ELSE <<>>

\* The tokens of the two rows of an item starting on row r.
ItemTokens(it, r) ==
    CASE it.kind = "pass" ->
           <<Tok("NAME", <<"pass">>, r)>> \o Trailing(it.c1, r)
             \o <<Tok("NEWLINE", <<"\n">>, r)>>
             \o Trailing(it.c2, r + 1) \o <<Tok("NL", <<"\n">>, r + 1)>>
      [] it.kind = "comment" ->
           Trailing(TRUE, r) \o <<Tok("NL", <<"\n">>, r), Tok("NL", <<"\n">>, r + 1)>>
      [] it.kind = "in1" ->
           <<Tok("NAME", <<RowNames[r]>>, r), Tok("NAME", <<"in">>, r),
             Tok("NAME", <<RightNames[r]>>, r)>> \o Trailing(it.c1, r)
             \o <<Tok("NEWLINE", <<"\n">>, r)>>
             \o Trailing(it.c2, r + 1) \o <<Tok("NL", <<"\n">>, r + 1)>>
      [] it.kind = "in2" ->
           <<Tok("OP", <<"(">>, r), Tok("NAME", <<RowNames[r]>>, r),
             Tok("NAME", <<"in">>, r)>> \o Trailing(it.c1, r)
             \o <<Tok("NL", <<"\n">>, r), Tok("NAME", <<RightNames[r + 1]>>, r + 1),
                  Tok("OP", <<")">>, r + 1)>> \o Trailing(it.c2, r + 1)
             \o <<Tok("NEWLINE", <<"\n">>, r + 1)>>

RECURSIVE ItemsTokens(_, _)
ItemsTokens(items, i) ==
    IF i > Len(items) THEN <<Tok("ENDMARKER", <<>>, 2 * i - 1)>>
    ELSE ItemTokens(items[i], 2 * i - 1) \o ItemsTokens(items, i + 1)

\* ast.parse: the statement of an item starting on row r, if it has one.
ItemStmt(it, r) ==
    CASE it.kind = "pass" -> <<Pass(r)>>
      [] it.kind = "comment" -> <<>>
      [] it.kind = "in1" ->
           <<Expr(Compare(Name(RowNames[r], Load, r), <<[t |-> "In"]>>,
                          <<Name(RightNames[r], Load, r)>>, r), r)>>
      [] it.kind = "in2" ->
           <<Expr(Compare(Name(RowNames[r], Load, r), <<[t |-> "In"]>>,
                          <<Name(RightNames[r + 1], Load, r + 1)>>, r), r)>>

RECURSIVE ItemsStmts(_, _)
ItemsStmts(items, i) ==
    IF i > Len(items) THEN <<>>
    ELSE ItemStmt(items[i], 2 * i - 1) \o ItemsStmts(items, i + 1)

InitRows ==
    /\ \E items \in SeqsUpTo(ItemShapes, MaxItems) \ {<<>>} :
          /\ tree = Module(ItemsStmts(items, 1))
          /\ lines = tokens_per_line(ItemsTokens(items, 1))
    /\ api = FALSE /\ sink = "file"
    /\ Constructed
    /\ NoMatch /\ NoParse

SpecRows == InitRows /\ [][NextConvert]_vars

\* The greatest row of a node visited so far.
MaxRowVisited ==
    IF visits = <<>> THEN 0
    ELSE CHOOSE r \in {visits[i].lineno : i \in 1..Len(visits)} :
            \A i \in 1..Len(visits) : visits[i].lineno <= r

LinesPassed == SubSeq(lines, 1, line_ix - 1)

\* Where a piece was written, or 0.
Pos(piece) ==
    IF \E i \in 1..Len(out) : out[i] = piece
    THEN CHOOSE i \in 1..Len(out) : out[i] = piece
    ELSE 0

NamesVisited == {visits[i] : i \in {j \in 1..Len(visits) : visits[j].t = "Name"}}

\* The cursor is past exactly the lines of the rows up to the greatest row
\* visited, and the comments written are those of the lines passed.
CursorExact ==
    /\ line_ix = 1 + Cardinality({i \in 1..Len(lines) : lines[i].row <= MaxRowVisited})
    /\ CommentsWritten = CommentsOf(LinesPassed)

\* When a name was written, the comments of the rows up to its own had been.
EarlierCommentsFirst ==
    \A n \in NamesVisited :
        \A i \in 1..Len(lines) :
            lines[i].row <= n.lineno
                => \A c \in 1..Len(CommentsOf(<<lines[i]>>)) :
                      /\ Pos(CommentsOf(<<lines[i]>>)[c]) > 0
                      /\ Pos(CommentsOf(<<lines[i]>>)[c]) < Pos(n.id.v)

\* When a name was written, no comment of a later row had been.
LaterCommentsAfter ==
    \A n \in NamesVisited :
        \A i \in 1..Len(lines) :
            lines[i].row > n.lineno
                => \A c \in 1..Len(CommentsOf(<<lines[i]>>)) :
                      \/ Pos(CommentsOf(<<lines[i]>>)[c]) = 0
                      \/ Pos(CommentsOf(<<lines[i]>>)[c]) > Pos(n.id.v)

\* C17 as stated: _sync moves the cursor forward past exactly the lines of
\* the rows up to the node's, writing their comments and nothing else; and
\* when a node's text is written, the comments of the rows up to its own
\* have been written and no comment of a later row has.
C17_SyncStepAndLaterComments ==
    pc \in {"body", "done"}
        => CursorExact /\ EarlierCommentsFirst /\ LaterCommentsAfter

\* C17, amended: _sync moves the cursor forward past exactly the lines of
\* the rows up to the node's, writing their comments and nothing else; and
\* when a node's text is written, the comments of the rows up to its own
\* have been written. (A comment of a later row may have been written
\* already, for a node visited before one of an earlier row.)
C17_SyncStep ==
    pc \in {"body", "done"} => CursorExact /\ EarlierCommentsFirst

\* A membership test on two rows with a comment on each has been written.
C17_Witness ==
    /\ pc = "done"
    /\ Len(body) = 1
    /\ body[1].t = "Expr"
    /\ body[1].value.comparators.v[1].lineno = 2
    /\ CommentsWritten = <<"c1", "c2">>
    /\ Pos("c2") < Pos("n1")

----------------------------------------------------------------------------
(* Conversions of a module of one call statement of the partial            *)
(* application marker pf_ or of f, with up to MaxArgs positional           *)
(* arguments, keyword arguments of distinct names, and a starred argument  *)
(* or none.                                                                *)

PartialCalls ==
    {Call(Name(f, Load, 1), args, kws, star, NoneV, 1) :
        f \in {partial_app, "f"}, args \in CallArgs, kws \in CallKeywords,
        star \in {NoneV, Name("r", Load, 1)}}

InitPartial ==
    /\ \E c \in PartialCalls : tree = Module(<<Expr(c, 1)>>)
    /\ lines = PlainLines(1)
    /\ api = FALSE /\ sink = "file"
    /\ Constructed
    /\ NoMatch /\ NoParse

SpecPartial == InitPartial /\ [][NextConvert]_vars

\* The statement just visited is a call of the marker.
IsMarkerCall == Visited /\ Stmt.value.func.id.v = partial_app

\* The call has exactly one positional argument and no keyword.
IsPartialApplication ==
    Len(Stmt.value.args.v) = 1 /\ Stmt.value.keywords.v = <<>>
      /\ Stmt.value.starargs.t = "None"

\* The text of every argument of the call is among the pieces written.
AllArgumentsWritten ==
    /\ \A i \in 1..Len(Stmt.value.args.v) : WroteName(Shown(Stmt.value.args.v[i]))
    /\ \A i \in 1..Len(Stmt.value.keywords.v) :
          /\ WroteName(Stmt.value.keywords.v[i].arg.v)
          /\ WroteName(Shown(Stmt.value.keywords.v[i].value))
    /\ Stmt.value.starargs.t # "None" => WroteName("r")

\* C18: a call of the marker with exactly one positional argument and no
\* keyword is written as the argument followed by ' _'; any other call of
\* the marker is left to the general rule for calls: it is written as a
\* call with every one of its arguments, or fails with the error of an
\* unsupported construct, and with no other error.
C18_PartialApplication ==
    IsMarkerCall
        => IF IsPartialApplication
           THEN /\ err = "none"
                /\ Written = <<Shown(Stmt.value.args.v[1]), " _", "\n", " ", " ">>
           ELSE /\ err \in {"none", "NotImplementedError"}
                /\ err = "none"
                     => /\ ~WroteName(" _")
                        /\ WroteName("(")
                        /\ AllArgumentsWritten

----------------------------------------------------------------------------
(* Conversions of a module of up to MaxStmts statements on rows 1, 2, ...: *)
(* a raise statement in each of its forms (bare, with a type, with a type  *)
(* and an instance, with a traceback too) or a pass statement.             *)

RaiseStmt(type, inst, tback, ln) ==
    [t |-> "Raise", type |-> type, inst |-> inst, tback |-> tback, lineno |-> ln]

RaiseKinds == {"raise", "raise E", "raise K", "raise E, v", "raise K, v",
               "raise E, v, t", "pass"}

Raising(kind, ln) ==
    CASE kind = "raise" -> RaiseStmt(NoneV, NoneV, NoneV, ln)
      [] kind = "raise E" -> RaiseStmt(Name("E", Load, ln), NoneV, NoneV, ln)
      [] kind = "raise K" -> RaiseStmt(Name("K", Load, ln), NoneV, NoneV, ln)
      [] kind = "raise E, v" ->
           RaiseStmt(Name("E", Load, ln), Name("v", Load, ln), NoneV, ln)
      [] kind = "raise K, v" ->
           RaiseStmt(Name("K", Load, ln), Name("v", Load, ln), NoneV, ln)
      [] kind = "raise E, v, t" ->
           RaiseStmt(Name("E", Load, ln), Name("v", Load, ln), Name("t", Load, ln), ln)
      [] kind = "pass" -> Pass(ln)

InitRaise ==
    /\ \E kinds \in SeqsUpTo(RaiseKinds, MaxStmts) \ {<<>>} :
          /\ tree = Module([i \in 1..Len(kinds) |-> Raising(kinds[i], i)])
          /\ lines = PlainLines(Len(kinds))
    /\ api = FALSE /\ sink = "file"
    /\ Constructed
    /\ NoMatch /\ NoParse

SpecRaise == InitRaise /\ [][NextConvert]_vars

\* C19: a raise statement with no operand is translated without an error,
\* as 'throw _ex' and a newline.
C19_BareReRaise ==
    (Visited /\ Stmt.t = "Raise" /\ Stmt.type.t = "None")
        => /\ err = "none"
           /\ Written = <<"throw _ex", "\n", " ", " ">>

----------------------------------------------------------------------------
(* Conversions of a module of up to MaxStmts statements on rows 1, 2, ...: *)
(* each reads a subscript of xs (an expression statement) or writes one    *)
(* (an assignment of z); the subscript is an index i or a slice with a     *)
(* lower bound a, an upper bound b and a step c, each present or not.      *)

Subscript(value, slice, ctx, ln) ==
    [t |-> "Subscript", value |-> value, slice |-> slice, ctx |-> ctx, lineno |-> ln]
Index(value) == [t |-> "Index", value |-> value]
Slice(lower, upper, step) ==
    [t |-> "Slice", lower |-> lower, upper |-> upper, step |-> step]

Opt(has, id, ln) == IF has THEN Name(id, Load, ln) ELSE NoneV

SliceShapes ==
    {<<"index">>} \cup {<<"slice", lo, up, st>> : lo, up, st \in BOOLEAN}

SliceOf(shape, ln) ==
    IF shape[1] = "index" THEN Index(Name("i", Load, ln))
    ELSE Slice(Opt(shape[2], "a", ln), Opt(shape[3], "b", ln), Opt(shape[4], "c", ln))

\* xs[...] or xs[...] = z on row ln
SubscriptStmt(shape, store, ln) ==
    IF store
    THEN Assign(<<Subscript(Name("xs", Load, ln), SliceOf(shape, ln), Store, ln)>>,
                Name("z", Load, ln), ln)
    ELSE Expr(Subscript(Name("xs", Load, ln), SliceOf(shape, ln), Load, ln), ln)

InitSlice ==
    /\ \E stmts \in SeqsUpTo(SliceShapes \X BOOLEAN, MaxStmts) \ {<<>>} :
          /\ tree = Module([i \in 1..Len(stmts) |->
                               SubscriptStmt(stmts[i][1], stmts[i][2], i)])
          /\ lines = PlainLines(Len(stmts))
    /\ api = FALSE /\ sink = "file"
    /\ Constructed
    /\ NoMatch /\ NoParse

SpecSlice == InitSlice /\ [][NextConvert]_vars

\* The subscript of the statement just visited, and what follows it in the
\* statement's text.
Sub == IF Stmt.t = "Expr" THEN Stmt.value ELSE Stmt.targets.v[1]
AfterSub ==
    IF Stmt.t = "Expr" THEN <<"\n", " ", " ">> ELSE <<" = ", "z", "\n", " ", " ">>

\* The text of a slice with a bound and without a step.
SliceText(slice) ==
    IF slice.upper.t # "None"
    THEN <<".slice(", IF slice.lower.t # "None" THEN "a" ELSE "0", ", ", "b", ")">>
    ELSE <<".drop(", "a", ")">>

\* C20: reading or writing a slice with a step fails as an unsupported
\* construct; a slice without a step is written as '.slice(lower-or-0,
\* upper)' when it has an upper bound and as '.drop(lower)' when it has
\* only a lower one, read or written; and no subscript is written as the
\* subscripted value alone.
C20_Slices ==
    Visited
        => /\ (Sub.slice.t = "Slice" /\ Sub.slice.step.t # "None")
                => err = "NotImplementedError"
           /\ (Sub.slice.t = "Slice" /\ Sub.slice.step.t = "None"
                 /\ (Sub.slice.lower.t # "None" \/ Sub.slice.upper.t # "None"))
                => /\ err = "none"
                   /\ Written = <<"xs">> \o SliceText(Sub.slice) \o AfterSub
           /\ err = "none" => Written # <<"xs">> \o AfterSub

----------------------------------------------------------------------------
(* Conversions of a module of one class whose constructor's body is up to  *)
(* MaxCtorStmts statements followed by a return statement with a value, by *)
(* a bare one, or by none. The class is on row 1, the def on row 2, its    *)
(* statements on the rows after.                                           *)

ReturnKinds == {"none", "return", "return z"}

Returning(kind, ln) ==
    CASE kind = "none" -> <<>>
      [] kind = "return" -> <<Return(NoneV, ln)>>
      [] kind = "return z" -> <<Return(Name("z", Load, ln), ln)>>

CtorWithReturn(kinds, last) ==
    FunctionDef("__init__", SelfParams(<<"self">>, 2),
                [i \in 1..Len(kinds) |-> BodyStmt(kinds[i], "self", i + 2)]
                  \o Returning(last, Len(kinds) + 3),
                2)

InitCtorReturn ==
    /\ \E kinds \in SeqsUpTo(BodyKinds, MaxCtorStmts), last \in ReturnKinds :
          /\ kinds # <<>> \/ last # "none"
          /\ tree = Module(<<ClassDef("C", <<>>, <<CtorWithReturn(kinds, last)>>, 1)>>)
          /\ lines = PlainLines(Len(kinds) + 3)
    /\ api = FALSE /\ sink = "file"
    /\ Constructed
    /\ NoMatch /\ NoParse

SpecCtorReturn == InitCtorReturn /\ [][NextConvert]_vars

\* The text of a statement of the constructor's body in the class body.
CtorStmtText(stmt) ==
    (CASE stmt.t = "Pass" -> <<"/* pass */">>
       [] stmt.t = "Assign" /\ stmt.targets.v[1].t = "Attribute" ->
            <<"var ", stmt.targets.v[1].attr.v, " = ", Shown(stmt.value)>>
       [] stmt.t = "Assign" /\ stmt.targets.v[1].t = "Name" ->
            <<"val ", stmt.targets.v[1].id.v, " = ", Shown(stmt.value)>>)
      \o <<"\n", " ", " ", " ", " ">>

RECURSIVE CtorText(_)
CtorText(stmts) ==
    IF stmts = <<>> THEN <<>>
    ELSE IF Head(stmts).t = "Return" THEN CtorText(Tail(stmts))
    ELSE CtorStmtText(Head(stmts)) \o CtorText(Tail(stmts))

\* C22: the return statement that ends a constructor's body, with a value
\* or without, is not written; the other statements of the body are
\* written in order between 'self =>' and the end of the class.
C22_TrailingReturnDropped ==
    HasCtor
        => /\ err = "none"
           /\ ~WroteName("return")
           /\ Occurs(<<"self", " =>", "\n", " ", " ", " ", " ">>
                       \o CtorText(Ctor.body.v) \o <<"}\n">>,
                     Written)

----------------------------------------------------------------------------
(* Conversions of a module of up to MaxStmts assignments of a text literal *)
(* to x, one per row. A text is up to MaxChars characters, each the letter *)
(* a or a double quote.                                                    *)

TextChars == {"a", "\""}

Texts == SeqsUpTo(TextChars, MaxChars)

TextLiteral(cs, ln) == [t |-> "Str", s |-> [t |-> "str", cs |-> cs], lineno |-> ln]

InitText ==
    /\ \E texts \in SeqsUpTo(Texts, MaxStmts) \ {<<>>} :
          /\ tree = Module([i \in 1..Len(texts) |->
                               Assign(<<Name("x", Store, i)>>,
                                      TextLiteral(texts[i], i), i)])
          /\ lines = PlainLines(Len(texts))
    /\ api = FALSE /\ sink = "file"
    /\ Constructed
    /\ NoMatch /\ NoParse

SpecText == InitText /\ [][NextConvert]_vars

\* The characters of the pieces, one by one.
RECURSIVE CharsOf(_)
CharsOf(pieces) ==
    IF pieces = <<>> THEN <<>>
    ELSE (CASE Head(pieces) = "\\\"" -> <<"\\", "\"">>
            [] Head(pieces) = "\"\"\"" -> <<"\"", "\"", "\"">>
            [] OTHER -> <<Head(pieces)>>)
           \o CharsOf(Tail(pieces))

\* The characters written for the literal: what is between 'val x = ' and
\* the newline.
LiteralWritten == CharsOf(SubSeq(Written, 4, Len(Written) - 3))

TheText == Stmt.value.s.cs

HasQuote(cs) == \E i \in 1..Len(cs) : cs[i] = "\""
HasTripleQuote(cs) ==
    \E i \in 1..(Len(cs) - 2) : cs[i] = "\"" /\ cs[i + 1] = "\"" /\ cs[i + 2] = "\""

\* C24: a text without a double quote is written between double quotes; a
\* text with a double quote is written between triple quotes; a text that
\* holds three double quotes in a row fails as an unsupported construct.
C24_TextLiteral ==
    Visited
        => IF HasTripleQuote(TheText) THEN err = "NotImplementedError"
           ELSE /\ err = "none"
                /\ LiteralWritten =
                     IF HasQuote(TheText)
                     THEN <<"\"", "\"", "\"">> \o TheText \o <<"\"", "\"", "\"">>
                     ELSE <<"\"">> \o TheText \o <<"\"">>

----------------------------------------------------------------------------
(* Conversions of a module of up to MaxStmts del statements, one per row,  *)
(* each with up to MaxTargets targets: xs[i], ys[j], the slice xs[a:b] or  *)
(* the name x.                                                             *)

DelKinds == {"xs[i]", "ys[j]", "xs[a:b]", "x"}

DelTarget(kind, ln) ==
    CASE kind = "xs[i]" ->
           Subscript(Name("xs", Load, ln), Index(Name("i", Load, ln)), Del, ln)
      [] kind = "ys[j]" ->
           Subscript(Name("ys", Load, ln), Index(Name("j", Load, ln)), Del, ln)
      [] kind = "xs[a:b]" ->
           Subscript(Name("xs", Load, ln),
                     Slice(Name("a", Load, ln), Name("b", Load, ln), NoneV), Del, ln)
      [] kind = "x" -> Name("x", Del, ln)

Delete(targets, ln) == [t |-> "Delete", targets |-> L(targets), lineno |-> ln]

InitDelete ==
    /\ \E dels \in SeqsUpTo(SeqsUpTo(DelKinds, MaxTargets) \ {<<>>}, MaxStmts) \ {<<>>} :
          /\ tree = Module([i \in 1..Len(dels) |->
                               Delete([k \in 1..Len(dels[i]) |->
                                          DelTarget(dels[i][k], i)], i)])
          /\ lines = PlainLines(Len(dels))
    /\ api = FALSE /\ sink = "file"
    /\ Constructed
    /\ NoMatch /\ NoParse

SpecDelete == InitDelete /\ [][NextConvert]_vars

\* The removal of an element is written for the target.
RemovalWritten(target) ==
    /\ target.t = "Subscript"
    /\ target.slice.t = "Index"
    /\ Occurs(<<target.value.id.v, ".__delitem__(", target.slice.value.id.v, ")">>,
              Written)

\* C25: a del statement either fails as an unsupported construct or is
\* written with the removal of an element for every one of its targets.
C25_DeleteEveryTarget ==
    Visited
        => \/ err = "NotImplementedError"
           \/ /\ err = "none"
              /\ \A k \in 1..Len(Stmt.targets.v) : RemovalWritten(Stmt.targets.v[k])

----------------------------------------------------------------------------
(* Conversions of a module of one statement with a list of arguments or of *)
(* parameters: a call of f with up to MaxArgs positional arguments,        *)
(* keyword arguments of distinct names, a starred argument r and a         *)
(* double-starred argument k, each present or not; or a def g with up to   *)
(* MaxParams parameters, a starred parameter v and a double-starred        *)
(* parameter w, each present or not.                                       *)

ListCalls ==
    {Expr(Call(Name("f", Load, 1), args, kws, star, kwargs, 1), 1) :
        args \in CallArgs, kws \in CallKeywords,
        star \in {NoneV, Name("r", Load, 1)}, kwargs \in {NoneV, Name("k", Load, 1)}}

ListDefs ==
    {FunctionDef("g",
                 arguments([i \in 1..n |->
                               [t |-> "Name", id |-> S(ParamNames[i]), ctx |-> Param,
                                lineno |-> 1]],
                           vararg, kwarg, <<>>),
                 <<Pass(2)>>, 1) :
        n \in 0..MaxParams, vararg \in {NoneV, S("v")}, kwarg \in {NoneV, S("w")}}

InitLists ==
    /\ \E st \in ListCalls \cup ListDefs :
          /\ tree = Module(<<st>>)
          /\ lines = PlainLines(2)
    /\ api = FALSE /\ sink = "file"
    /\ Constructed
    /\ NoMatch /\ NoParse

SpecLists == InitLists /\ [][NextConvert]_vars

\* What is written between the list's '(' and ')'.
ListWritten == SubSeq(Written, First("(", Written) + 1, First(")", Written) - 1)

\* The items of the list of the statement, each by its pieces, in order.
CallItems(call) ==
    [i \in 1..Len(call.args.v) |-> <<Shown(call.args.v[i])>>]
      \o [i \in 1..Len(call.keywords.v) |->
             <<call.keywords.v[i].arg.v, "=", Shown(call.keywords.v[i].value)>>]
      \o (IF call.starargs.t # "None" THEN <<<<"r", " : _*">>>> ELSE <<>>)
      \o (IF call.kwargs.t # "None"
          THEN <<<<"/* TODO kwargs using Dynamic? */ ", "k">>>> ELSE <<>>)

DefItems(args) ==
    [i \in 1..Len(args.args.v) |-> <<args.args.v[i].id.v, ": ", "Any">>]
      \o (IF args.vararg.t # "None" THEN <<<<"v", ": ", "Any", "*">>>> ELSE <<>>)
      \o (IF args.kwarg.t # "None"
          THEN <<<<"/* TODO kwarg */ ", "w", ": Dict[String, Any]">>>> ELSE <<>>)

\* The items, each two consecutive ones separated by one ', '.
RECURSIVE Separated(_)
Separated(items) ==
    IF items = <<>> THEN <<>>
    ELSE IF Len(items) = 1 THEN Head(items)
    ELSE Head(items) \o <<", ">> \o Separated(Tail(items))

\* C26: the list of arguments of a call and the list of parameters of a
\* def are written as their items in order, every two consecutive items
\* separated by exactly one ', ', with no separator before the first item
\* or after the last.
C26_ListSeparators ==
    Visited
        => /\ err = "none"
           /\ ListWritten =
                Separated(IF Stmt.t = "Expr" THEN CallItems(Stmt.value)
                          ELSE DefItems(Stmt.args))

====
